---- MODULE Spec2Model ----
(***************************************************************************)
(* A model of lintai's per-document concurrency core:                      *)
(*   - RequestQueue          (src/src/llm/request-queue.ts)                *)
(*   - executeLLMRequest     (src/src/llm/client.ts), the queued action    *)
(*   - debounce              (src/src/core/debounce.ts)                    *)
(*   - DocumentStore         (src/unnamed/part_001)                        *)
(*   - the LSP orchestrator  (src/unnamed/part_000)                        *)
(*                                                                         *)
(* JavaScript runs one macrotask at a time.  Every action below is one     *)
(* macrotask (an API call, an LSP event, a timer callback, the completion  *)
(* of an outbound call) together with the promise continuations            *)
(* (microtasks) it makes runnable.                                         *)
(***************************************************************************)
EXTENDS Integers, Sequences, FiniteSets, TLC

(***************************************************************************)
(* Bounds of the model.                                                    *)
(***************************************************************************)
MaxEnqueues == 3        \* enqueue calls in one run of the queue
MaxTicks == 1           \* clock advances in one run
MaxSignals == 1         \* enqueue calls that pass an external AbortSignal
MaxFailedCalls == 1     \* outbound calls that fail in one run
MaxDebounceEvents == 4  \* events of a debounced function that the history remembers
MaxDebounceTicks == 3   \* clock advances in one run of a debounced function
MaxAsyncCalls == 3      \* calls of one debounceAsync-wrapped function in one run
MaxFiles == 2           \* files one run of runCLI analyses
MaxLspEvents == 4       \* LSP notifications in one run of the server
MaxServerTicks == 2     \* clock advances in one run of the server
MaxLimiterTicks == 3    \* clock advances in one run of the rate limiter
MaxSleepers == 1        \* acquire() calls asleep at the same time
MaxStoreOps == 5        \* calls on the document store in one run
MaxStoreTicks == 1      \* clock advances in one run of the document store
MaxAcquireMs == 3000    \* time up to which a sleep of acquire() is followed in a client run

(***************************************************************************)
(* Program constants.                                                      *)
(***************************************************************************)
maxQueueAge == 30000
maxRetries == 3
maxRateLimitRetries == 5
debounceMs == 600               \* config.performance.debounceMs, the wait of every debounced function
maxWaitTime == 30000            \* the cap of the wait after a 429

Keys == {"/a", "/b"}            \* request ids (file paths)
TickMs == {30000, 30001}        \* amounts by which the clock advances
Args == {"x", "y"}              \* arguments of a debounced function
DebounceTickMs == {200, 600}    \* clock advances between the events of a debounced function

VARIABLES
    queue,        \* RequestQueue.queue: the queued (not started) requests
    processing,   \* RequestQueue.processing
    running,      \* the execute() calls that have started and not returned
    future,       \* future[s]: state of the promise enqueue number s returned
    aborted,      \* requests whose abortController.signal.aborted is true
    signal,       \* the requests whose external AbortSignal can still fire
    signals,      \* enqueue calls that passed an AbortSignal so far
    rateLimitEnabled, \* config.performance.rateLimitEnabled
    now,          \* Date.now()
    ticks,        \* clock advances so far
    failedCalls,  \* outbound calls that failed so far
    started,      \* history: the requests whose execute() was called, in order
    superseder,   \* history: live requests whose enqueue superseded a queued one
    completed,    \* history: the last execute() that returned or threw, and with what
    deb,          \* one debounced function: its closure (timeoutId, lastArgs) and armed timers
    events,       \* history: the latest calls, flushes, cancels and timer callbacks of deb
    adeb,         \* one debounceAsync-wrapped function: its closure, timers, runs and promises
    documents,    \* server: the TextDocuments manager, uri -> text of the open documents
    documentStore,\* the DocumentStore: documents, findingsCache, configHash
    analysisQueue,\* server: uri -> the debounced analysis function of the document
    analyses,     \* the triggerAnalysis calls suspended at `await analyze(...)`
    diagnostics,  \* per uri, the diagnostics the client was sent last
    apiKeyValid,  \* validateAPIKey(config).valid
    variant,      \* which of the two analyze() implementations is linked
    lspEvents,    \* LSP notifications handled so far
    sent,         \* history: the uris sendDiagnostics was called for in the last step
    stored,       \* history: the uris setFindings was called for in the last step
    startedFor,   \* history: the documents analyze() was called for since their content last changed
    limiter,      \* one RateLimiter: maxTokens, state.tokens, state.lastRefill
    sleepers,     \* the acquire() calls asleep in their loop, each by the time it wakes
    grants,       \* history: the tryAcquire() calls that returned true at time 0, and at the time it is now
    midRefill,    \* history: refillTokens ran at a time after 0 and before now
    lastCall,     \* history: the last call on the limiter and its result
    storeOp,      \* history: the last call on the document store
    storedSince,  \* history: the cache keys setFindings wrote since the config hash last changed
    storeOps,     \* calls on the document store so far
    clientLog,    \* history: the outbound calls of executeLLMRequest, each with its outcome and the sleep that followed
    cli           \* one run of runCLI: its inputs, its position, the results map and the exit code

qvars == <<queue, processing, running, future, aborted, signal, signals,
           rateLimitEnabled, now, ticks, failedCalls, started, superseder,
           completed>>

dvars == <<deb, events, adeb>>

svars == <<documents, documentStore, analysisQueue, analyses, diagnostics,
           apiKeyValid, variant, lspEvents, sent, stored, startedFor>>

lvars == <<limiter, sleepers, grants, midRefill, lastCall>>

tvars == <<storeOp, storedSince, storeOps>>

cvars == <<clientLog, cli>>

vars == <<qvars, dvars, svars, lvars, tvars, cvars>>

(***************************************************************************)
(* The queue object and its environment as one record, so that the         *)
(* methods are functions from state to state and compose as in the code.   *)
(***************************************************************************)
QS == [queue |-> queue, processing |-> processing, running |-> running,
       future |-> future, aborted |-> aborted, now |-> now,
       rateLimitEnabled |-> rateLimitEnabled, signal |-> signal,
       started |-> started, superseder |-> superseder, completed |-> completed]

SeqsOf(qu) == {qu[i].seq : i \in DOMAIN qu}

SetQS(q) ==
    /\ queue' = q.queue
    /\ processing' = q.processing
    /\ running' = q.running
    /\ future' = q.future
    /\ aborted' = q.aborted \cap SeqsOf(q.queue)   \* only a queued request's flag is ever read
    /\ signal' = q.signal \cap (SeqsOf(q.queue) \cup {x.seq : x \in q.running})
    /\ started' = q.started
    /\ superseder' = q.superseder \cap (SeqsOf(q.queue) \cup {x.seq : x \in q.running})
    /\ completed' = q.completed

\* A promise settles once: resolve/reject on a settled promise is a no-op.
Settle(fut, ss, v) ==
    [s \in DOMAIN fut |-> IF s \in ss /\ fut[s] = "pending" THEN v ELSE fut[s]]

\* The first synchronous stretch of executeLLMRequest, up to its first await:
\* rateLimiter.acquire() when rate limiting is enabled, else the first requestFn call.
StartExecute(q, request) ==
    IF q.rateLimitEnabled
    THEN [seq |-> request.seq, id |-> request.id, phase |-> "acquire",
          attempt |-> 0, rateLimitRetries |-> 0, waitTime |-> 0]
    ELSE [seq |-> request.seq, id |-> request.id, phase |-> "request",
          attempt |-> 1, rateLimitRetries |-> 0, waitTime |-> 0]

\* Mutant: the older requests of the id are left in the queue.
cancelByIdKeep(q, id) == q

cancelById(q, id) ==
    LET toCancel == {q.queue[i].seq : i \in {j \in DOMAIN q.queue : q.queue[j].id = id}}
    IN [q EXCEPT !.aborted = @ \cup toCancel,
                 !.future = Settle(@, toCancel, "superseded"),
                 !.queue = SelectSeq(@, LAMBDA r : r.id # id)]

\* Mutant: cancelAll also rejects and drops the request that is executing.
cancelAllRunning(q) ==
    [q EXCEPT !.aborted = @ \cup SeqsOf(q.queue),
              !.future = Settle(@, SeqsOf(q.queue) \cup {x.seq : x \in q.running}, "allCancelled"),
              !.running = {},
              !.processing = FALSE,
              !.queue = <<>>]

cancelAll(q) ==
    [q EXCEPT !.aborted = @ \cup SeqsOf(q.queue),
              !.future = Settle(@, SeqsOf(q.queue), "allCancelled"),
              !.queue = <<>>]

cleanupStaleRequests(q) ==
    LET stale == {q.queue[i].seq : i \in {j \in DOMAIN q.queue :
                                           q.now - q.queue[j].timestamp > maxQueueAge}}
    IN [q EXCEPT !.future = Settle(@, stale, "timedOut"),
                 !.queue = IF stale # {}
                           THEN SelectSeq(@, LAMBDA r : q.now - r.timestamp <= maxQueueAge)
                           ELSE @]

\* Mutant: processNext without the `processing` guard.
RECURSIVE processNextUnguarded(_)
processNextUnguarded(q) ==
    IF Len(q.queue) = 0 THEN q
    ELSE LET request == Head(q.queue)
             q1 == [q EXCEPT !.processing = TRUE, !.queue = Tail(@)]
         IN IF request.seq \in q1.aborted
            THEN processNextUnguarded([q1 EXCEPT !.future = Settle(@, {request.seq}, "cancelled"),
                                                 !.processing = FALSE])
            ELSE [q1 EXCEPT !.running = @ \cup {StartExecute(q, request)},
                            !.started = Append(@, request.seq)]

\* Mutant: processNext takes the newest request (pop) instead of the oldest (shift).
RECURSIVE processNextLifo(_)
processNextLifo(q) ==
    IF q.processing \/ Len(q.queue) = 0 THEN q
    ELSE LET request == q.queue[Len(q.queue)]
             q1 == [q EXCEPT !.processing = TRUE, !.queue = SubSeq(@, 1, Len(@) - 1)]
         IN IF request.seq \in q1.aborted
            THEN processNextLifo([q1 EXCEPT !.future = Settle(@, {request.seq}, "cancelled"),
                                            !.processing = FALSE])
            ELSE [q1 EXCEPT !.running = @ \cup {StartExecute(q, request)},
                            !.started = Append(@, request.seq)]

RECURSIVE processNext(_)
processNext(q) ==
    IF q.processing \/ Len(q.queue) = 0 THEN q
    ELSE LET request == Head(q.queue)
             q1 == [q EXCEPT !.processing = TRUE, !.queue = Tail(@)]
         IN IF request.seq \in q1.aborted
            THEN \* rejected without running; finally: processing = false; processNext()
                 processNext([q1 EXCEPT !.future = Settle(@, {request.seq}, "cancelled"),
                                        !.processing = FALSE])
            ELSE \* execute() runs up to its first await; processNext is suspended
                 [q1 EXCEPT !.running = @ \cup {StartExecute(q, request)},
                            !.started = Append(@, request.seq)]

\* enqueue(id, execute, signal): the promise it returns is number Len(future) + 1.
enqueue(q, id) ==
    LET q1 == cleanupStaleRequests(cancelById(q, id))
        request == [seq |-> Len(q.future) + 1, id |-> id, timestamp |-> q.now]
    IN processNext([q1 EXCEPT !.future = Append(@, "pending"),
                              !.queue = Append(@, request),
                              !.superseder = IF \E i \in DOMAIN q.queue : q.queue[i].id = id
                                             THEN @ \cup {request.seq} ELSE @])

\* Mutant: the finally block clears `processing` and does not call processNext().
settleExecuteNoNext(q, s, result) ==
    [q EXCEPT !.running = {r \in @ : r.seq # s},
              !.future = Settle(@, {s}, result),
              !.completed = [seq |-> s, result |-> result],
              !.processing = FALSE]

\* processNext resumed after `await request.execute()`: resolve or reject, then
\* finally: processing = false; processNext().
settleExecute(q, s, result) ==
    processNext([q EXCEPT !.running = {r \in @ : r.seq # s},
                          !.future = Settle(@, {s}, result),
                          !.completed = [seq |-> s, result |-> result],
                          !.processing = FALSE])

\* Mutant: the listener aborts the controller and leaves the promise alone.
signalAbortListenerDeferred(q, s) == [q EXCEPT !.aborted = @ \cup {s}]

\* The abort listener enqueue adds to the external signal.
signalAbortListener(q, s) ==
    [q EXCEPT !.aborted = @ \cup {s},
              !.future = Settle(@, {s}, "cancelled")]

(***************************************************************************)
(* executeLLMRequest, one await at a time.  x is the record of a running   *)
(* execute() call.                                                         *)
(***************************************************************************)
Results == {"response", "emptyResponse"}
Errors == {"authError", "serverError", "timeoutError", "otherError"}

ReplaceRunning(q, x, y) == [q EXCEPT !.running = (@ \ {x}) \cup {y}]

\* rateLimiter.acquire(): tryAcquire() failed, sleep.
acquireDenied(q, x) == ReplaceRunning(q, x, [x EXCEPT !.phase = "limiterSleep"])

\* rateLimiter.acquire(): the sleep is over, tryAcquire() again.
acquireRetry(q, x) == ReplaceRunning(q, x, [x EXCEPT !.phase = "acquire"])

\* rateLimiter.acquire() returned; attempt 1 calls requestFn.
acquireGranted(q, x) == ReplaceRunning(q, x, [x EXCEPT !.phase = "request", !.attempt = 1])

\* requestFn returned a response.
requestOk(q, x) == settleExecute(q, x.seq, "response")

\* Mutant: an auth error is retried like a server error.
requestAuthErrorRetried(q, x) ==
    IF x.attempt < maxRetries
    THEN ReplaceRunning(q, x, [x EXCEPT !.phase = "backoff", !.waitTime = 1000 * x.attempt])
    ELSE settleExecute(q, x.seq, "authError")

\* 401/403: thrown at once.
requestAuthError(q, x) == settleExecute(q, x.seq, "authError")

\* Math.pow(2, n)
RECURSIVE Pow2(_)
Pow2(n) == IF n = 0 THEN 1 ELSE 2 * Pow2(n - 1)

\* Mutant: the wait after a 429 is not capped.
requestRateLimitedUncapped(q, x) ==
    IF x.rateLimitRetries + 1 > maxRateLimitRetries
    THEN settleExecute(q, x.seq, "emptyResponse")
    ELSE ReplaceRunning(q, x, [x EXCEPT !.rateLimitRetries = @ + 1, !.phase = "backoff",
                                        !.waitTime = Pow2(x.rateLimitRetries + 1) * 1000])

\* 429: exponential backoff, or the empty response once the retries are used up.
requestRateLimited(q, x) ==
    IF x.rateLimitRetries + 1 > maxRateLimitRetries
    THEN settleExecute(q, x.seq, "emptyResponse")
    ELSE ReplaceRunning(q, x, [x EXCEPT !.rateLimitRetries = @ + 1, !.phase = "backoff",
                                        !.waitTime = IF Pow2(x.rateLimitRetries + 1) * 1000 <= maxWaitTime
                                                     THEN Pow2(x.rateLimitRetries + 1) * 1000
                                                     ELSE maxWaitTime])

\* Mutant: the wait after a 5xx is 1000 ms whatever the attempt.
requestServerErrorFlat(q, x) ==
    IF x.attempt < maxRetries
    THEN ReplaceRunning(q, x, [x EXCEPT !.phase = "backoff", !.waitTime = 1000])
    ELSE settleExecute(q, x.seq, "serverError")

\* 5xx: linear backoff while attempt < maxRetries, else thrown.
requestServerError(q, x) ==
    IF x.attempt < maxRetries
    THEN ReplaceRunning(q, x, [x EXCEPT !.phase = "backoff", !.waitTime = 1000 * x.attempt])
    ELSE settleExecute(q, x.seq, "serverError")

\* TimeoutError: retried at once (no sleep) while attempt < maxRetries, else thrown.
requestTimeout(q, x) ==
    IF x.attempt < maxRetries
    THEN ReplaceRunning(q, x, [x EXCEPT !.attempt = @ + 1])
    ELSE settleExecute(q, x.seq, "timeoutError")

\* Any other error: thrown.
requestOtherError(q, x) == settleExecute(q, x.seq, "otherError")

\* sleep(waitTime) returned: continue, the loop increments attempt and calls requestFn.
backoffDone(q, x) ==
    ReplaceRunning(q, x, [x EXCEPT !.phase = "request", !.attempt = @ + 1, !.waitTime = 0])

(***************************************************************************)
(* debounce(fn, waitMs).  The closure is a record: timeoutId and lastArgs  *)
(* are <<>> for null and <<v>> for a value; timers is the set of armed     *)
(* setTimeout timers, each named by the time it is due.                    *)
(***************************************************************************)
debounce(waitMs) == [timeoutId |-> <<>>, lastArgs |-> <<>>, timers |-> {}, waitMs |-> waitMs]

clearTimeout(timers, timeoutId) == timers \ {timeoutId[i] : i \in DOMAIN timeoutId}

\* Mutant: the pending timer is not cleared when a new call arrives.
debouncedNoClear(d, a, t) ==
    [d EXCEPT !.lastArgs = <<a>>,
              !.timers = @ \cup {t + d.waitMs},
              !.timeoutId = <<t + d.waitMs>>]

\* debounced(a) called at time t.
debounced(d, a, t) ==
    [d EXCEPT !.lastArgs = <<a>>,
              !.timers = clearTimeout(@, d.timeoutId) \cup {t + d.waitMs},
              !.timeoutId = <<t + d.waitMs>>]

\* The setTimeout callback of the timer due at `due`: what fn is invoked with
\* (<<>> when it is not invoked), and the closure afterwards.
timerInvokes(d) == d.lastArgs

timerCallback(d, due) ==
    [d EXCEPT !.lastArgs = <<>>, !.timeoutId = <<>>, !.timers = @ \ {due}]

\* Mutant: cancel clears the timer and leaves lastArgs set.
cancelKeepArgs(d) ==
    [d EXCEPT !.timers = clearTimeout(@, d.timeoutId), !.timeoutId = <<>>]

cancel(d) ==
    [d EXCEPT !.timers = clearTimeout(@, d.timeoutId), !.timeoutId = <<>>, !.lastArgs = <<>>]

flushInvokes(d) == d.lastArgs

\* Mutant: flush leaves lastArgs set.
flushKeepArgs(d) ==
    [d EXCEPT !.timers = clearTimeout(@, d.timeoutId), !.timeoutId = <<>>]

flush(d) ==
    [d EXCEPT !.timers = clearTimeout(@, d.timeoutId), !.timeoutId = <<>>, !.lastArgs = <<>>]

(***************************************************************************)
(* debounceAsync(fn, waitMs).  The closure holds timeoutId and             *)
(* pendingPromise (<<>> for null).  Calls are numbered: call p returns     *)
(* promise p and arms timer p, which holds the arguments of that call.     *)
(* timers are the armed timers, runs the executions of fn suspended at     *)
(* `await fn(...args)`; promise[p] is Unsettled or the outcome promise p   *)
(* settled with: the execution (numbered by its timer), its arguments and  *)
(* whether it returned.                                                    *)
(***************************************************************************)
Unsettled == [run |-> 0, args |-> "", ok |-> FALSE]

debounceAsync(waitMs) ==
    [timeoutId |-> <<>>, pendingPromise |-> <<>>, timers |-> {}, runs |-> {},
     promise |-> <<>>, waitMs |-> waitMs]

\* The wrapper called with a at time t.  clearTimeout of a timer that has
\* fired already does nothing.
debouncedAsync(d, a, t) ==
    LET p == Len(d.promise) + 1
    IN [d EXCEPT !.timers = {tm \in @ : <<tm.id>> # d.timeoutId}
                               \cup {[id |-> p, due |-> t + d.waitMs, args |-> a]},
                 !.pendingPromise = <<p>>,
                 !.timeoutId = <<p>>,
                 !.promise = Append(@, Unsettled)]

\* The setTimeout callback of timer tm starts: fn(...args) is called and awaited.
asyncTimerCallback(d, tm) ==
    [d EXCEPT !.timers = @ \ {tm}, !.runs = @ \cup {[id |-> tm.id, args |-> tm.args]}]

\* resolve or reject of promise p: a settled promise stays as it is.
SettlePromise(promise, p, outcome) ==
    [i \in DOMAIN promise |->
        IF <<i>> = p /\ promise[i] = Unsettled THEN outcome ELSE promise[i]]

\* The execution r of fn returned (ok) or threw: pendingPromise?.resolve or
\* pendingPromise?.reject, then finally timeoutId = null, pendingPromise = null.
asyncRunSettles(d, r, ok) ==
    [d EXCEPT !.runs = @ \ {r},
              !.promise = SettlePromise(@, d.pendingPromise,
                                        [run |-> r.id, args |-> r.args, ok |-> ok]),
              !.timeoutId = <<>>,
              !.pendingPromise = <<>>]

(***************************************************************************)
(* DocumentStore.  The store is a record s: documents maps the uris that   *)
(* have an entry to the entry, findingsCache maps the cache keys that are  *)
(* present to their value.  lastAnalyzed is <<>> for null.                 *)
(***************************************************************************)
Uris == {"file:///a", "file:///b"}
Contents == {"x", "y"}

\* The first 16 hex digits of the SHA-256 of the content.
computeHash(content) == "#" \o content

computeCacheKey(filePath, contentHash, configHash) ==
    filePath \o ":" \o contentHash \o ":" \o configHash

\* getConfigHash(config): the configuration is loaded once, in onInitialize.
getConfigHash == "cfg"

DocumentStore == [documents |-> <<>>, findingsCache |-> <<>>, configHash |-> ""]

\* Mutant: the new hash is adopted and the cache is kept.
setConfigHashKeepCache(s, hash) == [s EXCEPT !.configHash = hash]

setConfigHash(s, hash) ==
    IF s.configHash # hash
    THEN [s EXCEPT !.findingsCache = <<>>, !.configHash = hash]
    ELSE s

\* A function with the value v at the argument k, and f elsewhere.
Put(f, k, v) == [a \in DOMAIN f \cup {k} |-> IF a = k THEN v ELSE f[a]]

\* The function f without the argument k.
Remove(f, k) == [a \in DOMAIN f \ {k} |-> f[a]]

\* Mutant: set() builds a new entry also when the content is the same.
setAlways(s, uri, content) ==
    LET existing == uri \in DOMAIN s.documents
    IN [s EXCEPT !.documents = Put(@, uri,
            [content |-> content,
             contentHash |-> computeHash(content),
             findings |-> IF existing THEN s.documents[uri].findings ELSE <<>>,
             lastAnalyzed |-> IF existing THEN s.documents[uri].lastAnalyzed ELSE <<>>,
             analyzing |-> FALSE])]

set(s, uri, content) ==
    LET contentHash == computeHash(content)
        existing == uri \in DOMAIN s.documents
    IN IF existing /\ s.documents[uri].contentHash = contentHash
       THEN s
       ELSE [s EXCEPT !.documents = Put(@, uri,
                [content |-> content,
                 contentHash |-> contentHash,
                 findings |-> IF existing THEN s.documents[uri].findings ELSE <<>>,
                 lastAnalyzed |-> IF existing THEN s.documents[uri].lastAnalyzed ELSE <<>>,
                 analyzing |-> FALSE])]

\* setFindings(uri, findings) at time t = Date.now().
setFindings(s, uri, findings, t) ==
    IF uri \in DOMAIN s.documents
    THEN LET entry == s.documents[uri]
             cacheKey == computeCacheKey(uri, entry.contentHash, s.configHash)
         IN [s EXCEPT !.documents[uri] = [entry EXCEPT !.findings = findings,
                                                       !.lastAnalyzed = <<t>>,
                                                       !.analyzing = FALSE],
                      !.findingsCache = Put(@, cacheKey,
                                            [findings |-> findings, timestamp |-> t])]
    ELSE s

\* Mutant: one in-flight flag shared by all documents.
setAnalyzingAll(s, uri, analyzing) ==
    [s EXCEPT !.documents = [u \in DOMAIN @ |-> [@[u] EXCEPT !.analyzing = analyzing]]]

setAnalyzing(s, uri, analyzing) ==
    IF uri \in DOMAIN s.documents
    THEN [s EXCEPT !.documents[uri].analyzing = analyzing]
    ELSE s

\* getCachedFindings(uri): <<>> for null, <<findings>> for a hit.
getCachedFindings(s, uri) ==
    IF uri \notin DOMAIN s.documents THEN <<>>
    ELSE LET cacheKey == computeCacheKey(uri, s.documents[uri].contentHash, s.configHash)
         IN IF cacheKey \in DOMAIN s.findingsCache
            THEN <<s.findingsCache[cacheKey].findings>>
            ELSE <<>>

\* Mutant: delete() removes the entry and leaves the cache alone.
deleteKeepCache(s, uri) == [s EXCEPT !.documents = Remove(@, uri)]

delete(s, uri) ==
    LET s1 == IF uri \in DOMAIN s.documents
              THEN [s EXCEPT !.findingsCache =
                       Remove(@, computeCacheKey(uri, s.documents[uri].contentHash, s.configHash))]
              ELSE s
    IN [s1 EXCEPT !.documents = Remove(@, uri)]

\* The server after onInitialize: nothing open, the configuration hash set.
SFresh ==
    /\ documents = <<>>
    /\ documentStore = setConfigHash(DocumentStore, getConfigHash)
    /\ analysisQueue = <<>>
    /\ analyses = {}
    /\ diagnostics = <<>>
    /\ apiKeyValid = TRUE
    /\ variant = 1
    /\ lspEvents = 0
    /\ sent = {}
    /\ stored = {}
    /\ startedFor = {}

(***************************************************************************)
(* RateLimiter.  The configuration accepts any positive number of requests *)
(* per minute, whole or not, so rates are written in halves of a request   *)
(* per minute and tokens are counted in units of 1/120000 token:           *)
(* refillRate is then a whole number of units per millisecond, one token   *)
(* is TokenUnit units and a bucket of capacity R holds R * TokenUnit       *)
(* units.  l is the limiter: maxTokens in halves of a token, tokens in     *)
(* units.                                                                  *)
(***************************************************************************)
MinuteMs == 60000               \* refillRate = requestsPerMinute / 60000
RateScale == 2                  \* rates are written in halves of a request per minute
TokenUnit == RateScale * MinuteMs
rateLimitPerMinute == 10        \* config.performance.rateLimitPerMinute
maxSleepMs == 1000              \* acquire() sleeps at most one second at a time

\* r requests per minute, r a whole number.
PerMinute(r) == r * RateScale

Capacities == {PerMinute(rateLimitPerMinute), PerMinute(20)}

\* Rates the configuration accepts: PerformanceConfigSchema takes every positive
\* number, so half a request per minute (written 1) is among them.
AcceptedRates == {1, PerMinute(1), PerMinute(rateLimitPerMinute)}

Min(a, b) == IF a <= b THEN a ELSE b

RateLimiter(requestsPerMinute, t) ==
    [maxTokens |-> requestsPerMinute,
     tokens |-> requestsPerMinute * MinuteMs,
     lastRefill |-> t]

refillRate(l) == l.maxTokens

\* Mutant: refillTokens without the cap at maxTokens.
refillTokensNoCap(l, t) ==
    [l EXCEPT !.tokens = l.tokens + (t - l.lastRefill) * refillRate(l),
              !.lastRefill = t]

\* refillTokens() at time t = Date.now().
refillTokens(l, t) ==
    [l EXCEPT !.tokens = Min(l.maxTokens * MinuteMs,
                             l.tokens + (t - l.lastRefill) * refillRate(l)),
              !.lastRefill = t]

canRequest(l, t) == refillTokens(l, t).tokens >= TokenUnit

\* Mutant: tryAcquire returns true without consuming the token.
tryAcquireKeepToken(l, t) == refillTokens(l, t)

\* tryAcquire() at time t: the limiter afterwards; it returned true when
\* canRequest(l, t).
tryAcquire(l, t) ==
    LET r == refillTokens(l, t)
    IN IF r.tokens >= TokenUnit THEN [r EXCEPT !.tokens = @ - TokenUnit] ELSE r

\* Math.ceil((1 - tokens) / refillRate) of a refilled limiter with less than
\* one token.  The division is a floating-point one: where the exact quotient
\* is a whole number the rounded quotient can lie just above it.
waitTimes(l) ==
    LET missing == TokenUnit - l.tokens
        q == (missing + refillRate(l) - 1) \div refillRate(l)
    IN IF missing % refillRate(l) = 0 THEN {q, q + 1} ELSE {q}

getWaitTime(l, t) ==
    LET r == refillTokens(l, t)
    IN IF r.tokens >= TokenUnit THEN {0} ELSE waitTimes(r)

getAvailableTokens(l, t) == refillTokens(l, t).tokens \div TokenUnit

(***************************************************************************)
(* runCLI.  A run is a record: what it was started with (args.init, the    *)
(* result of initConfig, of validateAPIKey and of initParser, and for each *)
(* resolved file whether analyze() throws and the severities of the        *)
(* findings it returns), where it stands, the results map in file order    *)
(* and the exit code (-1 while it runs).                                   *)
(***************************************************************************)
FindingSeverity == {"error", "warning", "info", "hint"}

CliRun(input) == [input |-> input, pc |-> "start", results |-> <<>>, exit |-> 0 - 1]

Return(c, code) == [c EXCEPT !.pc = "done", !.exit = code]

\* runCLI up to the loop over the files.
runCLIStart(c) ==
    IF c.input.init THEN Return(c, IF c.input.initSuccess THEN 0 ELSE 2)
    ELSE IF ~c.input.apiKeyValid THEN Return(c, 2)
    ELSE IF ~c.input.parserOk THEN Return(c, 2)
    ELSE IF Len(c.input.files) = 0 THEN Return(c, 2)
    ELSE [c EXCEPT !.pc = "analyze"]

\* One iteration of the loop: analyze() of the next file, or its catch block.
runCLIAnalyzeFile(c) ==
    LET file == c.input.files[Len(c.results) + 1]
    IN [c EXCEPT !.results = Append(@, IF file.throws
                                       THEN [findings |-> <<>>, error |-> TRUE]
                                       ELSE [findings |-> file.findings, error |-> FALSE])]

HasSeverity(results, severity) ==
    \E i \in DOMAIN results : \E j \in DOMAIN results[i].findings :
        results[i].findings[j] = severity

\* "Determine exit code".
exitCode(results) ==
    IF HasSeverity(results, "error") THEN 1
    ELSE IF HasSeverity(results, "warning") THEN 1
    ELSE 0

CFresh ==
    /\ clientLog = <<>>
    /\ cli = CliRun([init |-> FALSE, initSuccess |-> TRUE, apiKeyValid |-> TRUE,
                     parserOk |-> TRUE, files |-> <<>>])

TFresh ==
    /\ storeOp = [op |-> "new", uri |-> "", same |-> FALSE]
    /\ storedSince = {}
    /\ storeOps = 0

LFresh ==
    /\ limiter = RateLimiter(PerMinute(rateLimitPerMinute), 0)
    /\ sleepers = <<>>
    /\ grants = [atZero |-> 0, atNow |-> 0]
    /\ midRefill = FALSE
    /\ lastCall = [op |-> "new", result |-> 0]

(***************************************************************************)
(* The queue on its own: any client calling its public methods.            *)
(***************************************************************************)
QFresh ==
    /\ queue = <<>>
    /\ processing = FALSE
    /\ running = {}
    /\ future = <<>>
    /\ aborted = {}
    /\ signal = {}
    /\ signals = 0
    /\ now = 0
    /\ ticks = 0
    /\ failedCalls = 0
    /\ started = <<>>
    /\ superseder = {}
    /\ completed = [seq |-> 0, result |-> "none"]

DFresh ==
    /\ adeb = debounceAsync(debounceMs)
    /\ deb = debounce(debounceMs)
    /\ events = <<[kind |-> "create", time |-> 0, args |-> <<>>]>>

QInit ==
    /\ QFresh
    /\ DFresh
    /\ SFresh
    /\ LFresh
    /\ TFresh
    /\ CFresh
    /\ rateLimitEnabled \in BOOLEAN

Enqueue(id, sig) ==
    /\ Len(future) < MaxEnqueues
    /\ sig => signals < MaxSignals
    /\ signals' = IF sig THEN signals + 1 ELSE signals
    /\ SetQS([enqueue(QS, id) EXCEPT !.signal = IF sig THEN @ \cup {Len(future) + 1} ELSE @])
    /\ UNCHANGED <<rateLimitEnabled, now, ticks, failedCalls, dvars, svars, lvars, tvars, cvars>>

CancelById(id) ==
    /\ SetQS(cancelById(QS, id))
    /\ UNCHANGED <<signals, rateLimitEnabled, now, ticks, failedCalls, dvars, svars, lvars, tvars, cvars>>

CancelAll ==
    /\ SetQS(cancelAll(QS))
    /\ UNCHANGED <<signals, rateLimitEnabled, now, ticks, failedCalls, dvars, svars, lvars, tvars, cvars>>

\* The caller aborts the signal it passed to enqueue number s.
SignalAbort(s) ==
    /\ SetQS([signalAbortListener(QS, s) EXCEPT !.signal = @ \ {s}])
    /\ UNCHANGED <<signals, rateLimitEnabled, now, ticks, failedCalls, dvars, svars, lvars, tvars, cvars>>

Tick(d) ==
    /\ ticks < MaxTicks
    /\ now' = now + d
    /\ ticks' = ticks + 1
    /\ UNCHANGED <<queue, processing, running, future, aborted, signal, signals,
                   rateLimitEnabled, failedCalls, started, superseder, completed, dvars, svars, lvars, tvars, cvars>>

QStep(q) ==
    /\ SetQS(q)
    /\ UNCHANGED <<signals, rateLimitEnabled, now, ticks, failedCalls, dvars, svars, lvars, tvars, cvars>>

QFail(q) ==
    /\ failedCalls < MaxFailedCalls
    /\ failedCalls' = failedCalls + 1
    /\ SetQS(q)
    /\ UNCHANGED <<signals, rateLimitEnabled, now, ticks, dvars, svars, lvars, tvars, cvars>>

AcquireDenied(x) == x.phase = "acquire" /\ QStep(acquireDenied(QS, x))
AcquireRetry(x) == x.phase = "limiterSleep" /\ QStep(acquireRetry(QS, x))
AcquireGranted(x) == x.phase = "acquire" /\ QStep(acquireGranted(QS, x))
RequestOk(x) == x.phase = "request" /\ QStep(requestOk(QS, x))
RequestAuthError(x) == x.phase = "request" /\ QFail(requestAuthError(QS, x))
RequestRateLimited(x) == x.phase = "request" /\ QFail(requestRateLimited(QS, x))
RequestServerError(x) == x.phase = "request" /\ QFail(requestServerError(QS, x))
RequestTimeout(x) == x.phase = "request" /\ QFail(requestTimeout(QS, x))
RequestOtherError(x) == x.phase = "request" /\ QFail(requestOtherError(QS, x))
BackoffDone(x) == x.phase = "backoff" /\ QStep(backoffDone(QS, x))

ExecuteStep ==
    \E x \in running :
        \/ AcquireDenied(x)
        \/ AcquireRetry(x)
        \/ AcquireGranted(x)
        \/ RequestOk(x)
        \/ RequestAuthError(x)
        \/ RequestRateLimited(x)
        \/ RequestServerError(x)
        \/ RequestTimeout(x)
        \/ RequestOtherError(x)
        \/ BackoffDone(x)

QNext ==
    \/ \E id \in Keys, sig \in BOOLEAN : Enqueue(id, sig)
    \/ \E id \in Keys : CancelById(id)
    \/ CancelAll
    \/ \E s \in signal : SignalAbort(s)
    \/ \E d \in TickMs : Tick(d)
    \/ ExecuteStep

SpecQueue == QInit /\ [][QNext]_vars

\* Outbound calls terminate (each carries a timeout) and the limiter's bucket
\* refills with time, so acquire() is granted in the end.
FairSpecQueue ==
    /\ SpecQueue
    /\ WF_vars(ExecuteStep)
    /\ SF_vars(\E x \in running : AcquireGranted(x))

RunningSeqs == {x.seq : x \in running}
RunningSeqs2 == {x.seq : x \in running'}

(***************************************************************************)
(* C1: after any interleaving of enqueue, cancelById, cancelAll, external  *)
(* aborts and completions, at most one enqueued action is executing.       *)
(***************************************************************************)
C1_AtMostOneExecuting == Cardinality(running) <= 1

C1_Witness == Cardinality(running) = 1 /\ Len(queue) >= 1 /\ Len(started) >= 2

(***************************************************************************)
(* C2: when enqueue(k, B) finds A of the same key still queued, A's future *)
(* is rejected as superseded (a future its own abort signal has already    *)
(* rejected keeps that rejection), A's action is never executed, and B's   *)
(* future settles in the end, with B's own result when B's action returns  *)
(* one and B was not cancelled first.                                      *)
(***************************************************************************)
C2_SupersedeStep ==
    Len(future') = Len(future) + 1 =>
        \A i \in DOMAIN queue :
            (\E r \in {queue'[j] : j \in DOMAIN queue'} \cup running' :
                r.seq = Len(future') /\ r.id = queue[i].id)
            => /\ queue[i].seq \notin SeqsOf(queue') \cup RunningSeqs2
               /\ future[queue[i].seq] = "pending" => future'[queue[i].seq] = "superseded"
               /\ future'[queue[i].seq] # "pending"
               /\ Len(future') \in superseder'

C2_BGetsItsResult ==
    \A b \in superseder :
        (b \in RunningSeqs /\ b \notin RunningSeqs2 /\ future[b] = "pending")
        => future'[b] = completed'.result /\ completed'.seq = b

C2_Supersession ==
    /\ [][C2_SupersedeStep /\ C2_BGetsItsResult]_vars
    /\ [](\A s \in DOMAIN future :
            future[s] = "superseded" => \A i \in DOMAIN started : started[i] # s)
    /\ [](superseder \subseteq 3..MaxEnqueues)
    /\ \A b \in 3..MaxEnqueues : (b \in superseder) ~> (b \in DOMAIN future /\ future[b] # "pending")

C2_Witness ==
    \E a, b \in DOMAIN future :
        /\ a < b
        /\ future[a] = "superseded"
        /\ future[b] = "response"
        /\ completed.seq = b

(***************************************************************************)
(* C3: actions start in enqueue order among the requests that were not     *)
(* cancelled or evicted, and a request of any key starts only after the    *)
(* one started before it has settled, its limiter waits and retry backoffs *)
(* included.                                                               *)
(***************************************************************************)
C3_FifoWithExclusivity ==
    /\ \A i, j \in DOMAIN started : i < j => started[i] < started[j]
    /\ \A i, j \in DOMAIN queue : i < j => queue[i].seq < queue[j].seq
    /\ \A i \in DOMAIN queue, j \in DOMAIN started : started[j] < queue[i].seq
    /\ \A i \in DOMAIN started :
          i < Len(started) => started[i] \notin RunningSeqs /\ future[started[i]] # "pending"

C3_Witness ==
    /\ Len(started) >= 2
    /\ \E x \in running : x.phase = "backoff" /\ \E i \in DOMAIN queue : queue[i].id # x.id

(***************************************************************************)
(* C6: no request whose age exceeds maxQueueAge ever starts executing.     *)
(***************************************************************************)
C6_StaleNeverStarts ==
    [][\A i \in DOMAIN queue :
          now - queue[i].timestamp > maxQueueAge => queue[i].seq \notin RunningSeqs2]_vars

(***************************************************************************)
(* C7: the queue holds at most one pending request per key (while one more *)
(* request of that key may be executing).                                  *)
(***************************************************************************)
C7_OnePendingPerKey ==
    \A i, j \in DOMAIN queue : queue[i].id = queue[j].id => i = j

C7_Witness ==
    \E i \in DOMAIN queue : \E x \in running : x.id = queue[i].id

(***************************************************************************)
(* C8: cancelById, cancelAll and an enqueue of the same key do not preempt *)
(* the executing request: it stays executing, these calls reject queued    *)
(* requests only, and when its action returns or throws its future settles *)
(* with that outcome.                                                      *)
(***************************************************************************)
CancellingStep ==
    \/ \E id \in Keys : CancelById(id)
    \/ CancelAll
    \/ \E id \in Keys, sig \in BOOLEAN : Enqueue(id, sig)

C8_Step ==
    \A x \in running :
        /\ CancellingStep =>
              /\ x \in running'
              /\ future'[x.seq] = future[x.seq]
              /\ \A s \in DOMAIN future : future'[s] # future[s] => s \in SeqsOf(queue)
        /\ x.seq \notin RunningSeqs2 =>
              /\ completed'.seq = x.seq
              /\ completed'.result \in Results \cup Errors
              /\ future[x.seq] = "pending" => future'[x.seq] = completed'.result

C8_NoPreemption == [][C8_Step]_vars

C8_Witness ==
    \E s, t \in DOMAIN future :
        /\ s < t
        /\ future[t] \in {"superseded", "allCancelled"}
        /\ future[s] \in Results \cup Errors
        /\ \A i \in DOMAIN started : started[i] # t

(***************************************************************************)
(* One debounced function on its own.  A timer's callback runs when the    *)
(* clock reaches the time it is due: the clock does not advance past an    *)
(* armed timer.                                                            *)
(***************************************************************************)
Event(kind, invoked) == [kind |-> kind, time |-> now, args |-> invoked]

DStep(d, e) ==
    /\ deb' = d
    /\ events' = IF Len(events) < MaxDebounceEvents
                 THEN Append(events, e)
                 ELSE Append(Tail(events), e)
    /\ UNCHANGED <<qvars, svars, lvars, tvars, cvars, adeb>>

DCall(a) == DStep(debounced(deb, a, now), Event("call", <<a>>))

DTimer(due) ==
    /\ due = now
    /\ DStep(timerCallback(deb, due), Event("timer", timerInvokes(deb)))

DFlush == DStep(flush(deb), Event("flush", flushInvokes(deb)))

DCancel == DStep(cancel(deb), Event("cancel", <<>>))

DTick(d) ==
    /\ ticks < MaxDebounceTicks
    /\ \A due \in deb.timers : now + d <= due
    /\ now' = now + d
    /\ ticks' = ticks + 1
    /\ UNCHANGED <<queue, processing, running, future, aborted, signal, signals,
                   rateLimitEnabled, failedCalls, started, superseder, completed, dvars, svars, lvars, tvars, cvars>>

DInit ==
    /\ QFresh
    /\ DFresh
    /\ SFresh
    /\ LFresh
    /\ TFresh
    /\ CFresh
    /\ rateLimitEnabled = TRUE

DNext ==
    \/ \E a \in Args : DCall(a)
    \/ \E due \in deb.timers : DTimer(due)
    \/ DFlush
    \/ DCancel
    \/ \E d \in DebounceTickMs : DTick(d)

SpecDebounce == DInit /\ [][DNext]_vars

\* A call is pending after event i when event i is a call: every other event
\* (timer callback, flush, cancel) leaves no call pending.
Pending(i) == events[i].kind = "call"

\* The events of the history that have their predecessor in it.
Later == 2..Len(events)

(***************************************************************************)
(* C9: calls that follow each other by less than the wait are answered by  *)
(* exactly one invocation, made by the timer `wait` after the last call    *)
(* and with its arguments, after which no call is pending; the timer       *)
(* invokes at no other time.                                               *)
(***************************************************************************)
C9_Coalescing ==
    /\ \A i \in Later :
          events[i].kind = "timer" =>
              /\ Pending(i - 1)
              /\ events[i].args = events[i - 1].args
              /\ events[i].time = events[i - 1].time + debounceMs
    /\ \A i \in DOMAIN events :
          (Pending(i) /\ i < Len(events) /\ events[i + 1].kind = "call")
              => events[i + 1].time <= events[i].time + debounceMs
    /\ events[Len(events)].kind = "timer"
          => deb.lastArgs = <<>> /\ deb.timeoutId = <<>> /\ deb.timers = {}
    /\ Pending(Len(events)) =>
          /\ deb.timers = {events[Len(events)].time + debounceMs}
          /\ now <= events[Len(events)].time + debounceMs

C9_Witness ==
    \E i \in DOMAIN events :
        /\ i >= 4
        /\ i = Len(events)
        /\ events[i].kind = "timer"
        /\ events[i].args = <<"y">>
        /\ \A k \in 1..3 : events[i - k].kind = "call"
        /\ events[i - 2].args = <<"x">>
        /\ events[i - 3].time < events[i - 2].time
        /\ events[i - 2].time < events[i - 1].time

(***************************************************************************)
(* C10: flush() while a call is pending invokes the action at once, once,  *)
(* with the latest arguments, and the timer that was pending never invokes *)
(* the action afterwards; flush() with no pending call invokes nothing.    *)
(***************************************************************************)
C10_Flush ==
    /\ \A i \in Later :
          events[i].kind = "flush" =>
              /\ events[i].args = IF Pending(i - 1) THEN events[i - 1].args ELSE <<>>
              /\ Pending(i - 1) => events[i].time <= events[i - 1].time + debounceMs
    /\ \A i \in Later :
          (events[i - 1].kind = "flush" /\ events[i].kind = "timer") => events[i].args = <<>>
    /\ \A i \in Later :
          (events[i].kind = "timer" /\ events[i].args # <<>>) => events[i - 1].kind = "call"
    /\ events[Len(events)].kind = "flush" => deb.lastArgs = <<>>

C10_Witness ==
    \E i \in DOMAIN events :
        /\ i >= 3
        /\ events[i].kind = "flush"
        /\ events[i].args = <<"y">>
        /\ events[i - 1].kind = "call"
        /\ events[i - 2].kind = "call"
        /\ events[i - 2].args = <<"x">>
        /\ events[i].time < events[i - 1].time + debounceMs
        /\ now >= events[i - 1].time + debounceMs
        /\ i < Len(events)
        /\ events[i + 1].kind = "flush"

(***************************************************************************)
(* The LSP server.  st is the whole server as one record: the request      *)
(* queue q, the document store, the TextDocuments manager, the debounced   *)
(* analysis functions, the suspended triggerAnalysis calls, and what the   *)
(* client was sent.  onInitialize awaits initParser; the model takes the   *)
(* parser as initialised, so analyze() reaches sendLLMRequest, and with it *)
(* enqueue, without suspending.                                            *)
(***************************************************************************)
ServerTickMs == {300}

SS == [q |-> QS, store |-> documentStore, documents |-> documents,
       analysisQueue |-> analysisQueue, analyses |-> analyses,
       diagnostics |-> diagnostics, sent |-> {}, stored |-> {},
       startedFor |-> startedFor]

\* new URL(uri).pathname
pathname(uri) == CASE uri = "file:///a" -> "/a" [] uri = "file:///b" -> "/b"

\* connection.sendDiagnostics({uri, diagnostics}): the findings shown and the
\* message of the error diagnostic ("" when there is none).
sendDiagnostics(st, uri, findings, error) ==
    [st EXCEPT !.diagnostics = Put(@, uri, [findings |-> findings, error |-> error]),
               !.sent = @ \cup {uri}]

\* What generateLocalFindings (first analyze) or [] (second analyze) gives.
fallbackFindings(v, content) == IF v = 1 THEN <<"local:" \o content>> ELSE <<>>

\* What analyze() returns once the promise of sendLLMRequest has settled as f.
analyzeResult(v, f, content) ==
    CASE f = "response" -> [findings |-> <<"llm:" \o content>>, error |-> ""]
      [] f = "emptyResponse" -> [findings |-> <<>>, error |-> ""]
      [] f = "authError" ->
            [findings |-> fallbackFindings(v, content), error |-> "Invalid API key"]
      [] f = "serverError" ->
            [findings |-> fallbackFindings(v, content),
             error |-> "LLM service temporarily unavailable."]
      [] f = "timeoutError" ->
            IF v = 1 THEN [findings |-> fallbackFindings(v, content), error |-> ""]
                     ELSE [findings |-> <<>>, error |-> "Analysis timed out"]
      [] f = "superseded" -> [findings |-> <<>>, error |-> ""]
      [] f = "timedOut" ->
            [findings |-> fallbackFindings(v, content), error |-> "Request timed out in queue"]
      [] f = "cancelled" ->
            [findings |-> fallbackFindings(v, content), error |-> "Request cancelled"]
      [] f = "allCancelled" ->
            [findings |-> fallbackFindings(v, content), error |-> "All requests cancelled"]
      [] OTHER -> [findings |-> fallbackFindings(v, content), error |-> "LLM request failed"]

\* triggerAnalysis up to `await analyze(...)`.
triggerAnalysis(st, uri, content) ==
    IF uri \notin DOMAIN st.store.documents THEN st
    ELSE IF st.store.documents[uri].analyzing THEN st
    ELSE LET s1 == [st EXCEPT !.store = setAnalyzing(@, uri, TRUE)]
         IN IF ~apiKeyValid
            THEN LET s2 == sendDiagnostics(s1, uri, <<>>, "API key not configured")
                 IN [s2 EXCEPT !.store = setAnalyzing(@, uri, FALSE)]
            ELSE [s1 EXCEPT !.q = enqueue(@, pathname(uri)),
                            !.analyses = @ \cup {[uri |-> uri, content |-> content,
                                                  seq |-> Len(s1.q.future) + 1]},
                            !.startedFor = @ \cup {uri}]

\* triggerAnalysis from `await analyze(...)` on, for the suspended call a.
triggerAnalysisResume(st, a) ==
    LET result == analyzeResult(variant, st.q.future[a.seq], a.content)
        s1 == [st EXCEPT !.store = setFindings(@, a.uri, result.findings, st.q.now),
                         !.stored = @ \cup {a.uri},
                         !.analyses = @ \ {a}]
        s2 == sendDiagnostics(s1, a.uri, result.findings, result.error)
    IN [s2 EXCEPT !.store = setAnalyzing(@, a.uri, FALSE)]

\* The continuations that the settled promises make runnable, oldest first.
RECURSIVE resumeSettled(_)
resumeSettled(st) ==
    LET ready == {a \in st.analyses : st.q.future[a.seq] # "pending"}
    IN IF ready = {} THEN st
       ELSE LET a == CHOOSE r \in ready : \A o \in ready : r.seq <= o.seq
            IN resumeSettled(triggerAnalysisResume(st, a))

\* The function getOrCreateDebouncedAnalysis debounces.
debouncedAnalysis(st, docUri) ==
    IF docUri \in DOMAIN st.documents
    THEN triggerAnalysis(st, docUri, st.documents[docUri])
    ELSE st

\* Mutant: one timer shared by all documents: a call for one document clears
\* the pending call of every other.
getOrCreateSharedDebouncedAnalysis(st, uri) ==
    LET q == IF uri \in DOMAIN st.analysisQueue THEN st.analysisQueue
             ELSE Put(st.analysisQueue, uri, debounce(debounceMs))
    IN [st EXCEPT !.analysisQueue =
           [u \in DOMAIN q |-> IF u = uri THEN q[u] ELSE cancel(q[u])]]

getOrCreateDebouncedAnalysis(st, uri) ==
    IF uri \in DOMAIN st.analysisQueue THEN st
    ELSE [st EXCEPT !.analysisQueue = Put(@, uri, debounce(debounceMs))]

\* The documents analyze() was called for, once uri holds text.
startedForAfter(st, uri, text) ==
    IF uri \in DOMAIN st.documents /\ st.documents[uri] = text
    THEN st.startedFor
    ELSE st.startedFor \ {uri}

onDidOpen(st, uri, text) ==
    LET s1 == [st EXCEPT !.documents = Put(@, uri, text), !.store = set(@, uri, text),
                         !.startedFor = startedForAfter(st, uri, text)]
        cached == getCachedFindings(s1.store, uri)
    IN IF cached # <<>>
       THEN sendDiagnostics(s1, uri, cached[1], "")
       ELSE triggerAnalysis(s1, uri, text)

onDidChangeContent(st, uri, text) ==
    LET s1 == [st EXCEPT !.documents = Put(@, uri, text), !.store = set(@, uri, text),
                         !.startedFor = startedForAfter(st, uri, text)]
        s2 == getOrCreateDebouncedAnalysis(s1, uri)
    IN [s2 EXCEPT !.analysisQueue[uri] = debounced(@, uri, st.q.now)]

onDidSave(st, uri) ==
    IF uri \in DOMAIN st.analysisQueue
    THEN LET invoked == flushInvokes(st.analysisQueue[uri])
             s1 == [st EXCEPT !.analysisQueue[uri] = flush(@)]
         IN IF invoked # <<>> THEN debouncedAnalysis(s1, invoked[1]) ELSE s1
    ELSE st

onDidClose(st, uri) ==
    LET s1 == [st EXCEPT !.documents = Remove(@, uri),
                         !.analysisQueue = Remove(@, uri),
                         !.startedFor = @ \ {uri}]
        s2 == sendDiagnostics(s1, uri, <<>>, "")
    IN [s2 EXCEPT !.store = delete(@, uri)]

\* The setTimeout callback of the debounced analysis of uri, due now.
onTimeout(st, uri) ==
    LET invoked == timerInvokes(st.analysisQueue[uri])
        s1 == [st EXCEPT !.analysisQueue[uri] = timerCallback(@, st.q.now)]
    IN IF invoked # <<>> THEN debouncedAnalysis(s1, invoked[1]) ELSE s1

\* One macrotask of the server: the handler, then the runnable continuations.
SetSS(st0) ==
    LET st == resumeSettled(st0)
    IN /\ SetQS(st.q)
       /\ documentStore' = st.store
       /\ documents' = st.documents
       /\ analysisQueue' = st.analysisQueue
       /\ analyses' = st.analyses
       /\ diagnostics' = st.diagnostics
       /\ sent' = st.sent
       /\ stored' = st.stored
       /\ startedFor' = st.startedFor

SFrame == UNCHANGED <<signals, rateLimitEnabled, now, ticks, failedCalls, dvars,
                      apiKeyValid, variant, lvars, tvars, cvars>>

LspEvent(st) ==
    /\ lspEvents < MaxLspEvents
    /\ Len(future) < MaxEnqueues
    /\ lspEvents' = lspEvents + 1
    /\ SetSS(st)
    /\ SFrame

DidOpen(uri, text) == uri \notin DOMAIN documents /\ LspEvent(onDidOpen(SS, uri, text))

DidChangeContent(uri, text) ==
    uri \in DOMAIN documents /\ LspEvent(onDidChangeContent(SS, uri, text))

DidSave(uri) == uri \in DOMAIN documents /\ LspEvent(onDidSave(SS, uri))

DidClose(uri) == uri \in DOMAIN documents /\ LspEvent(onDidClose(SS, uri))

Timeout(uri) ==
    /\ now \in analysisQueue[uri].timers
    /\ Len(future) < MaxEnqueues
    /\ SetSS(onTimeout(SS, uri))
    /\ UNCHANGED lspEvents
    /\ SFrame

STick(d) ==
    /\ ticks < MaxServerTicks
    /\ \A uri \in DOMAIN analysisQueue : \A due \in analysisQueue[uri].timers : now + d <= due
    /\ now' = now + d
    /\ ticks' = ticks + 1
    /\ sent' = {}
    /\ stored' = {}
    /\ UNCHANGED <<queue, processing, running, future, aborted, signal, signals,
                   rateLimitEnabled, failedCalls, started, superseder, completed, dvars,
                   documents, documentStore, analysisQueue, analyses, diagnostics,
                   apiKeyValid, variant, lspEvents, startedFor, lvars, tvars, cvars>>

\* A step of the executing request, then the continuations it makes runnable.
SStep(q) ==
    /\ SetSS([SS EXCEPT !.q = q])
    /\ UNCHANGED lspEvents
    /\ SFrame

SFail(q) ==
    /\ failedCalls < MaxFailedCalls
    /\ failedCalls' = failedCalls + 1
    /\ SetSS([SS EXCEPT !.q = q])
    /\ UNCHANGED <<signals, rateLimitEnabled, now, ticks, dvars, apiKeyValid, variant,
                   lspEvents, lvars, tvars, cvars>>

SAcquireDenied(x) == x.phase = "acquire" /\ SStep(acquireDenied(QS, x))
SAcquireRetry(x) == x.phase = "limiterSleep" /\ SStep(acquireRetry(QS, x))
SAcquireGranted(x) == x.phase = "acquire" /\ SStep(acquireGranted(QS, x))
SRequestOk(x) == x.phase = "request" /\ SStep(requestOk(QS, x))
SRequestAuthError(x) == x.phase = "request" /\ SFail(requestAuthError(QS, x))
SRequestRateLimited(x) == x.phase = "request" /\ SFail(requestRateLimited(QS, x))
SRequestServerError(x) == x.phase = "request" /\ SFail(requestServerError(QS, x))
SRequestTimeout(x) == x.phase = "request" /\ SFail(requestTimeout(QS, x))
SRequestOtherError(x) == x.phase = "request" /\ SFail(requestOtherError(QS, x))
SBackoffDone(x) == x.phase = "backoff" /\ SStep(backoffDone(QS, x))

SExecuteStep ==
    \E x \in running :
        \/ SAcquireDenied(x)
        \/ SAcquireRetry(x)
        \/ SAcquireGranted(x)
        \/ SRequestOk(x)
        \/ SRequestAuthError(x)
        \/ SRequestRateLimited(x)
        \/ SRequestServerError(x)
        \/ SRequestTimeout(x)
        \/ SRequestOtherError(x)
        \/ SBackoffDone(x)

SInit ==
    /\ QFresh
    /\ DFresh
    /\ LFresh
    /\ TFresh
    /\ CFresh
    /\ documents = <<>>
    /\ documentStore = setConfigHash(DocumentStore, getConfigHash)
    /\ analysisQueue = <<>>
    /\ analyses = {}
    /\ diagnostics = <<>>
    /\ lspEvents = 0
    /\ sent = {}
    /\ stored = {}
    /\ startedFor = {}
    /\ rateLimitEnabled = TRUE
    /\ apiKeyValid \in BOOLEAN
    /\ variant \in {1, 2}

SNext ==
    \/ \E uri \in Uris, text \in Contents : DidOpen(uri, text)
    \/ \E uri \in Uris, text \in Contents : DidChangeContent(uri, text)
    \/ \E uri \in Uris : DidSave(uri)
    \/ \E uri \in Uris : DidClose(uri)
    \/ \E uri \in DOMAIN analysisQueue : Timeout(uri)
    \/ \E d \in ServerTickMs : STick(d)
    \/ SExecuteStep

SpecServer == SInit /\ [][SNext]_vars

(***************************************************************************)
(* C4: for every document, at most one triggerAnalysis call is suspended   *)
(* at `await analyze(...)` at any time, under any interleaving of open,    *)
(* change, save and close events, debounce timers and completions.         *)
(***************************************************************************)
InFlight(uri) == {a \in analyses : a.uri = uri}

C4_OneAnalysisPerDocument == \A uri \in Uris : Cardinality(InFlight(uri)) <= 1

(***************************************************************************)
(* C5: in the step in which the request of a suspended analysis is         *)
(* superseded, setFindings is not called for its document, nothing is sent *)
(* to the client for it, and the document's findings and cache entries     *)
(* stay as they were.                                                      *)
(***************************************************************************)
FindingsOf(s, uri) ==
    IF uri \in DOMAIN s.documents THEN <<s.documents[uri].findings>> ELSE <<>>

CacheOf(s, uri) ==
    [text \in Contents |->
        LET cacheKey == computeCacheKey(uri, computeHash(text), s.configHash)
        IN IF cacheKey \in DOMAIN s.findingsCache
           THEN <<s.findingsCache[cacheKey]>>
           ELSE <<>>]

C5_Step ==
    \A a \in analyses :
        (future[a.seq] = "pending" /\ future'[a.seq] = "superseded") =>
            /\ a.uri \notin stored'
            /\ a.uri \notin sent'
            /\ FindingsOf(documentStore', a.uri) = FindingsOf(documentStore, a.uri)
            /\ CacheOf(documentStore', a.uri) = CacheOf(documentStore, a.uri)

C5_SupersededWritesNothing == [][C5_Step]_vars

(***************************************************************************)
(* C11: cancel() discards the pending call: it leaves no timer armed and   *)
(* no arguments kept, so no timer callback follows it, and a flush() that  *)
(* follows it invokes nothing; only a new call makes the action run again. *)
(***************************************************************************)
C11_CancelDiscards ==
    /\ events[Len(events)].kind = "cancel" =>
           deb.timers = {} /\ deb.lastArgs = <<>> /\ deb.timeoutId = <<>>
    /\ \A i \in Later :
           events[i - 1].kind = "cancel" =>
               /\ events[i].kind # "timer"
               /\ events[i].kind = "flush" => events[i].args = <<>>

C11_Witness ==
    \E i \in Later :
        /\ i >= 3
        /\ events[i - 2].kind = "call"
        /\ events[i - 1].kind = "cancel"
        /\ events[i - 1].time > events[i - 2].time
        /\ events[i].kind = "flush"

(***************************************************************************)
(* C12: the debounced function of a document is changed only by that       *)
(* document's own change, save and close events and by its own timer; a    *)
(* change arms its timer for now + debounceMs.  So no event of another     *)
(* document restarts, fires or cancels it, and it fires debounceMs after   *)
(* the document's own last change.                                         *)
(***************************************************************************)
DebouncedOf(q, uri) == IF uri \in DOMAIN q THEN <<q[uri]>> ELSE <<>>

OwnEvent(uri) ==
    \/ \E text \in Contents : DidChangeContent(uri, text)
    \/ DidSave(uri)
    \/ DidClose(uri)
    \/ uri \in DOMAIN analysisQueue /\ Timeout(uri)

C12_Step ==
    \A uri \in Uris :
        /\ ~OwnEvent(uri) =>
               DebouncedOf(analysisQueue', uri) = DebouncedOf(analysisQueue, uri)
        /\ (\E text \in Contents : DidChangeContent(uri, text)) =>
               /\ uri \in DOMAIN analysisQueue'
               /\ analysisQueue'[uri].timers = {now + debounceMs}
        /\ \A other \in Uris \ {uri} :
               (uri \in DOMAIN analysisQueue /\ other \in DOMAIN analysisQueue
                    /\ Timeout(other)) =>
                   analysisQueue'[uri] = analysisQueue[uri]

C12_PerDocumentDebounce == [][C12_Step]_vars

\* A was changed while B's timer was pending, and B's timer has fired on time.
C12_Witness ==
    \E A, B \in DOMAIN analysisQueue :
        /\ A # B
        /\ now = 2 * 300
        /\ analysisQueue[A].timers = {300 + debounceMs}
        /\ analysisQueue[B].timers = {}
        /\ analysisQueue[B].timeoutId = <<>>
        /\ \E a \in analyses : a.uri = B /\ a.seq = Len(future)

(***************************************************************************)
(* One RateLimiter on its own: any client calling its public methods at    *)
(* non-decreasing times.  An acquire() that finds no token sleeps and      *)
(* tries again when it wakes.                                              *)
(***************************************************************************)
LimiterTickMs == {1000, 3000, 6000}

Bool(b) == IF b THEN 1 ELSE 0

\* A call of op that ran refillTokens, left the limiter as l and returned result.
LCall(op, l, result) ==
    /\ limiter' = l
    /\ lastCall' = [op |-> op, result |-> result]
    /\ UNCHANGED <<qvars, dvars, svars, tvars, cvars, midRefill>>

LGrant(granted) ==
    grants' = IF granted
              THEN [atZero |-> IF now = 0 THEN grants.atZero + 1 ELSE grants.atZero,
                    atNow |-> grants.atNow + 1]
              ELSE grants

CanRequest ==
    /\ LCall("canRequest", refillTokens(limiter, now), Bool(canRequest(limiter, now)))
    /\ UNCHANGED <<sleepers, grants>>

TryAcquire ==
    /\ LCall("tryAcquire", tryAcquire(limiter, now), Bool(canRequest(limiter, now)))
    /\ LGrant(canRequest(limiter, now))
    /\ UNCHANGED sleepers

GetWaitTime ==
    /\ \E w \in getWaitTime(limiter, now) :
           LCall("getWaitTime", refillTokens(limiter, now), w)
    /\ UNCHANGED <<sleepers, grants>>

GetAvailableTokens ==
    /\ LCall("getAvailableTokens", refillTokens(limiter, now),
             getAvailableTokens(limiter, now))
    /\ UNCHANGED <<sleepers, grants>>

\* One round of the loop of acquire(): tryAcquire(), and when it fails a sleep
\* of min(waitTime, 1000) ms.  asleep is the calls that stay asleep.
AcquireRound(asleep) ==
    /\ LCall("acquire", tryAcquire(limiter, now), Bool(canRequest(limiter, now)))
    /\ LGrant(canRequest(limiter, now))
    /\ IF canRequest(limiter, now)
       THEN sleepers' = asleep
       ELSE \E w \in waitTimes(refillTokens(limiter, now)) :
                sleepers' = Append(asleep, now + Min(w, maxSleepMs))

Acquire ==
    /\ Len(sleepers) < MaxSleepers
    /\ AcquireRound(sleepers)

AcquireWake(i) ==
    /\ sleepers[i] = now
    /\ AcquireRound([j \in 1..(Len(sleepers) - 1) |->
                        IF j < i THEN sleepers[j] ELSE sleepers[j + 1]])

LTick(d) ==
    /\ ticks < MaxLimiterTicks
    /\ \A i \in DOMAIN sleepers : now + d <= sleepers[i]
    /\ now' = now + d
    /\ ticks' = ticks + 1
    /\ grants' = [grants EXCEPT !.atNow = 0]
    /\ midRefill' = (midRefill \/ (now > 0 /\ limiter.lastRefill = now))
    /\ UNCHANGED <<queue, processing, running, future, aborted, signal, signals,
                   rateLimitEnabled, failedCalls, started, superseder, completed,
                   dvars, svars, tvars, cvars, limiter, sleepers, lastCall>>

LInit ==
    /\ QFresh
    /\ DFresh
    /\ SFresh
    /\ TFresh
    /\ CFresh
    /\ rateLimitEnabled = TRUE
    /\ \E requestsPerMinute \in Capacities : limiter = RateLimiter(requestsPerMinute, 0)
    /\ sleepers = <<>>
    /\ grants = [atZero |-> 0, atNow |-> 0]
    /\ midRefill = FALSE
    /\ lastCall = [op |-> "new", result |-> 0]

LNext ==
    \/ CanRequest
    \/ TryAcquire
    \/ GetWaitTime
    \/ GetAvailableTokens
    \/ Acquire
    \/ \E i \in DOMAIN sleepers : AcquireWake(i)
    \/ \E d \in LimiterTickMs : LTick(d)

SpecLimiter == LInit /\ [][LNext]_vars

(***************************************************************************)
(* C13: the token count of a limiter of capacity R is at least 0 and at    *)
(* most R in every reachable state.                                        *)
(***************************************************************************)
C13_TokensInRange ==
    /\ 0 <= limiter.tokens
    /\ limiter.tokens <= limiter.maxTokens * MinuteMs

\* One token was taken at time 0, and the refill that came next found more
\* time elapsed than it takes to replace it: the cap applied.
C13_Witness ==
    /\ grants.atZero = 1
    /\ grants.atNow = 0
    /\ ~midRefill
    /\ limiter.lastRefill = now
    /\ now * refillRate(limiter) > TokenUnit
    /\ limiter.tokens = limiter.maxTokens * MinuteMs

(***************************************************************************)
(* C14: from a full bucket of capacity R, with no time elapsing, R calls   *)
(* of tryAcquire() succeed and the next fails; 60000/R ms later, with no   *)
(* call in between, one more tryAcquire() succeeds and the one after it    *)
(* fails.                                                                  *)
(***************************************************************************)
Denied == lastCall.op = "tryAcquire" /\ lastCall.result = 0 /\ limiter.lastRefill = now

TokenMs == TokenUnit \div limiter.maxTokens

C14_Conservation ==
    /\ PerMinute(grants.atZero) <= limiter.maxTokens
    /\ (now = 0 /\ Denied) => PerMinute(grants.atZero) = limiter.maxTokens
    /\ (PerMinute(grants.atZero) = limiter.maxTokens /\ now = TokenMs /\ ~midRefill) =>
           /\ grants.atNow <= 1
           /\ Denied => grants.atNow = 1

C14_Witness ==
    /\ limiter.maxTokens = PerMinute(rateLimitPerMinute)
    /\ grants.atZero = 10
    /\ now = 6000
    /\ ~midRefill
    /\ grants.atNow = 1
    /\ Denied

(***************************************************************************)
(* The DocumentStore on its own: any client calling its methods.           *)
(***************************************************************************)
ConfigHashes == {getConfigHash, "cfg2"}
FindingLists == {<<>>, <<"finding">>}

CacheKeyOf(s, uri) == computeCacheKey(uri, s.documents[uri].contentHash, s.configHash)

TStep(s, op, uri, same) ==
    /\ storeOps < MaxStoreOps
    /\ storeOps' = storeOps + 1
    /\ documentStore' = s
    /\ storeOp' = [op |-> op, uri |-> uri, same |-> same]
    /\ UNCHANGED <<qvars, dvars, lvars, cvars, documents, analysisQueue, analyses, diagnostics,
                   apiKeyValid, variant, lspEvents, sent, stored, startedFor>>

StoreSet(uri, content) ==
    /\ TStep(set(documentStore, uri, content), "set", uri,
             uri \in DOMAIN documentStore.documents
                 /\ documentStore.documents[uri].contentHash = computeHash(content))
    /\ UNCHANGED storedSince

StoreSetFindings(uri, findings) ==
    /\ TStep(setFindings(documentStore, uri, findings, now), "setFindings", uri, FALSE)
    /\ storedSince' = IF uri \in DOMAIN documentStore.documents
                      THEN storedSince \cup {CacheKeyOf(documentStore, uri)}
                      ELSE storedSince

StoreSetAnalyzing(uri, analyzing) ==
    /\ TStep(setAnalyzing(documentStore, uri, analyzing), "setAnalyzing", uri, FALSE)
    /\ UNCHANGED storedSince

StoreSetConfigHash(hash) ==
    /\ TStep(setConfigHash(documentStore, hash), "setConfigHash", "",
             hash = documentStore.configHash)
    /\ storedSince' = IF hash = documentStore.configHash THEN storedSince ELSE {}

StoreDelete(uri) ==
    /\ TStep(delete(documentStore, uri), "delete", uri, FALSE)
    /\ UNCHANGED storedSince

TTick ==
    /\ ticks < MaxStoreTicks
    /\ now' = now + 1
    /\ ticks' = ticks + 1
    /\ UNCHANGED <<queue, processing, running, future, aborted, signal, signals,
                   rateLimitEnabled, failedCalls, started, superseder, completed,
                   dvars, svars, lvars, tvars, cvars>>

TInit ==
    /\ QFresh
    /\ DFresh
    /\ LFresh
    /\ TFresh
    /\ CFresh
    /\ rateLimitEnabled = TRUE
    /\ documents = <<>>
    /\ documentStore = DocumentStore
    /\ analysisQueue = <<>>
    /\ analyses = {}
    /\ diagnostics = <<>>
    /\ apiKeyValid = TRUE
    /\ variant = 1
    /\ lspEvents = 0
    /\ sent = {}
    /\ stored = {}
    /\ startedFor = {}

TNext ==
    \/ \E uri \in Uris, content \in Contents : StoreSet(uri, content)
    \/ \E uri \in Uris, findings \in FindingLists : StoreSetFindings(uri, findings)
    \/ \E uri \in Uris, analyzing \in BOOLEAN : StoreSetAnalyzing(uri, analyzing)
    \/ \E hash \in ConfigHashes : StoreSetConfigHash(hash)
    \/ \E uri \in Uris : StoreDelete(uri)
    \/ TTick

SpecStore == TInit /\ [][TNext]_vars

(***************************************************************************)
(* C15: a call of setConfigHash with a hash other than the stored one      *)
(* leaves no cached findings for any document, whether or not its content  *)
(* changed, and from then on getCachedFindings only returns findings that  *)
(* setFindings stored after that call; a call with the stored hash leaves  *)
(* the cache as it is.                                                     *)
(***************************************************************************)
C15_ConfigStep ==
    (storeOps' # storeOps /\ storeOp'.op = "setConfigHash") =>
        IF documentStore'.configHash = documentStore.configHash
        THEN documentStore'.findingsCache = documentStore.findingsCache
        ELSE \A uri \in Uris : getCachedFindings(documentStore', uri) = <<>>

C15_HitsStoredSince ==
    \A uri \in DOMAIN documentStore.documents :
        getCachedFindings(documentStore, uri) # <<>>
            => CacheKeyOf(documentStore, uri) \in storedSince

C15_ConfigHashInvalidates == [][C15_ConfigStep]_vars /\ []C15_HitsStoredSince

\* The hash has just changed while a document that had been analysed is
\* still in the store, and the cache has nothing for it.
C15_Witness ==
    /\ storeOp.op = "setConfigHash"
    /\ ~storeOp.same
    /\ documentStore.configHash = "cfg2"
    /\ \E uri \in DOMAIN documentStore.documents :
           /\ documentStore.documents[uri].lastAnalyzed # <<>>
           /\ documentStore.documents[uri].findings # <<>>
           /\ getCachedFindings(documentStore, uri) = <<>>

(***************************************************************************)
(* C16: set(uri, content) for a document whose stored content hash equals  *)
(* the hash of content changes nothing in the store: the entry (content,   *)
(* findings, lastAnalyzed, analyzing) and the findings cache stay as they  *)
(* were.                                                                   *)
(***************************************************************************)
C16_Step ==
    \A uri \in Uris, content \in Contents :
        ( /\ StoreSet(uri, content)
          /\ uri \in DOMAIN documentStore.documents
          /\ documentStore.documents[uri].contentHash = computeHash(content) )
            => documentStore' = documentStore

C16_SetSameContentIsNoOp == [][C16_Step]_vars

\* set() has just been called with the stored content on a document that is
\* being analysed and has findings, with a non-empty cache.
C16_Witness ==
    /\ storeOp.op = "set"
    /\ storeOp.same
    /\ storeOp.uri \in DOMAIN documentStore.documents
    /\ documentStore.documents[storeOp.uri].analyzing
    /\ documentStore.documents[storeOp.uri].findings # <<>>
    /\ documentStore.documents[storeOp.uri].lastAnalyzed # <<>>
    /\ DOMAIN documentStore.findingsCache # {}

(***************************************************************************)
(* C19, as stated: after delete(uri) the store has no entry for uri, and   *)
(* set(uri, c) followed by getCachedFindings(uri) finds nothing, whatever  *)
(* the content c.                                                          *)
(***************************************************************************)
DeleteStep == storeOps' # storeOps /\ storeOp'.op = "delete"

C19_OriginalStep ==
    DeleteStep =>
        /\ storeOp'.uri \notin DOMAIN documentStore'.documents
        /\ \A c \in Contents :
               getCachedFindings(set(documentStore', storeOp'.uri, c), storeOp'.uri) = <<>>

C19_DeleteRemovesAllCached == [][C19_OriginalStep]_vars

(***************************************************************************)
(* C19, amended: after delete(uri) the store has no entry for uri and no   *)
(* cached findings for the content the entry held when it was deleted;     *)
(* every other cache entry, among them findings cached for earlier         *)
(* contents of uri, and every other document stay as they were.            *)
(***************************************************************************)
C19_AmendedStep ==
    DeleteStep =>
        LET uri == storeOp'.uri
            s == documentStore
        IN /\ uri \notin DOMAIN documentStore'.documents
           /\ documentStore'.documents = Remove(s.documents, uri)
           /\ IF uri \in DOMAIN s.documents
              THEN /\ getCachedFindings(
                          set(documentStore', uri, s.documents[uri].content), uri) = <<>>
                   /\ documentStore'.findingsCache
                          = Remove(s.findingsCache, CacheKeyOf(s, uri))
              ELSE documentStore'.findingsCache = s.findingsCache

C19_DeleteRemovesCurrentCached == [][C19_AmendedStep]_vars

\* delete() has just removed a document and the cache still answers for one
\* of its earlier contents.
C19_Witness ==
    /\ storeOp.op = "delete"
    /\ storeOp.uri \notin DOMAIN documentStore.documents
    /\ \E c \in Contents :
           getCachedFindings(set(documentStore, storeOp.uri, c), storeOp.uri) # <<>>

(***************************************************************************)
(* C17: analyze() is called at most once for a content of a document: no   *)
(* step calls it for a document for which it was already called since the  *)
(* document's content last changed, so a further event carrying the same   *)
(* content starts no second analysis.                                      *)
(***************************************************************************)
NewAnalyses == analyses' \ analyses

C17_Step == \A a \in NewAnalyses : a.uri \notin startedFor

C17_OneAnalysisPerContent == [][C17_Step]_vars

(***************************************************************************)
(* C18: no step calls analyze() for a document while the cache holds       *)
(* findings for the document's content under the current config hash, be   *)
(* the call made by the open handler or by the debounced analysis that a   *)
(* change event scheduled.                                                 *)
(***************************************************************************)
C18_Step ==
    \A a \in NewAnalyses :
        getCachedFindings(set(documentStore, a.uri, a.content), a.uri) = <<>>

C18_CachedContentNotAnalysed == [][C18_Step]_vars

(***************************************************************************)
(* C20: when the first event opens a document with content x and the       *)
(* second changes it to another content y less than debounceMs later,      *)
(* analyze() has not been called by then, and when the timer of that       *)
(* change fires analyze() has been called exactly once, for y.             *)
(***************************************************************************)
C20_ChangeStep ==
    \A uri \in Uris, y \in Contents :
        ( /\ DidChangeContent(uri, y)
          /\ lspEvents = 1
          /\ now < debounceMs
          /\ documents[uri] # y
          /\ apiKeyValid )
            => /\ Len(future') = 0
               /\ analyses' = {}

C20_TimeoutStep ==
    \A uri \in DOMAIN analysisQueue :
        ( /\ Timeout(uri)
          /\ lspEvents = 2
          /\ now < 2 * debounceMs
          /\ uri \notin startedFor
          /\ apiKeyValid )
            => /\ Len(future') = 1
               /\ \A a \in analyses' : a.uri = uri /\ a.content = documents[uri]

C20_OpenThenChangeAnalysesOnce == [][C20_ChangeStep /\ C20_TimeoutStep]_vars

(***************************************************************************)
(* executeLLMRequest on its own: one request enqueued on an idle queue,    *)
(* its outbound calls answered in every possible way.  A sleep ends when   *)
(* its time has passed; clientLog keeps, per outbound call, its outcome    *)
(* and the sleep that followed it.                                         *)
(***************************************************************************)
CallOutcomes == {"response", "authError", "rateLimited", "serverError", "timeoutError",
                 "otherError"}

\* The request of the executing call after the step to q, if it still runs.
StillRunning(q, x) == {y \in q.running : y.seq = x.seq}

WaitAfter(q, x) ==
    IF StillRunning(q, x) = {} THEN 0
    ELSE (CHOOSE y \in StillRunning(q, x) : TRUE).waitTime

CFrame == UNCHANGED <<signals, rateLimitEnabled, ticks, failedCalls, dvars, svars, tvars, cli>>

CEnqueue ==
    /\ Len(future) = 0
    /\ SetQS(enqueue(QS, "/a"))
    /\ UNCHANGED <<now, clientLog, lvars>>
    /\ CFrame

\* One round of rateLimiter.acquire() on the process-wide limiter: tryAcquire(),
\* and when it fails the sleep begins.
CAcquire(x) ==
    /\ x.phase = "acquire"
    /\ SetQS(IF canRequest(limiter, now) THEN acquireGranted(QS, x)
                                         ELSE acquireDenied(QS, x))
    /\ limiter' = tryAcquire(limiter, now)
    /\ LGrant(canRequest(limiter, now))
    /\ UNCHANGED <<now, clientLog, sleepers, midRefill, lastCall>>
    /\ CFrame

\* sleep(Math.min(waitTime, 1000)) of acquire() is over.
CAcquireSleep(x) ==
    /\ x.phase = "limiterSleep"
    /\ now < MaxAcquireMs
    /\ SetQS(acquireRetry(QS, x))
    /\ \E w \in waitTimes(limiter) : now' = now + Min(w, maxSleepMs)
    /\ UNCHANGED <<clientLog, lvars>>
    /\ CFrame

\* requestFn(options) returned or threw: outcome names what it did.
CCall(x, outcome, q) ==
    /\ x.phase = "request"
    /\ SetQS(q)
    /\ clientLog' = Append(clientLog, [outcome |-> outcome, waitTime |-> WaitAfter(q, x)])
    /\ UNCHANGED <<now, lvars>>
    /\ CFrame

\* sleep(waitTime) is over.
CBackoffDone(x) ==
    /\ x.phase = "backoff"
    /\ SetQS(backoffDone(QS, x))
    /\ now' = now + x.waitTime
    /\ UNCHANGED <<clientLog, lvars>>
    /\ CFrame

CExecuteStep ==
    \E x \in running :
        \/ CAcquire(x)
        \/ CAcquireSleep(x)
        \/ CCall(x, "response", requestOk(QS, x))
        \/ CCall(x, "authError", requestAuthError(QS, x))
        \/ CCall(x, "rateLimited", requestRateLimited(QS, x))
        \/ CCall(x, "serverError", requestServerError(QS, x))
        \/ CCall(x, "timeoutError", requestTimeout(QS, x))
        \/ CCall(x, "otherError", requestOtherError(QS, x))
        \/ CBackoffDone(x)

CInit ==
    /\ QFresh
    /\ DFresh
    /\ SFresh
    /\ TFresh
    /\ CFresh
    /\ rateLimitEnabled \in BOOLEAN
    /\ \E requestsPerMinute \in AcceptedRates :
           limiter = RateLimiter(requestsPerMinute, 0)
    /\ sleepers = <<>>
    /\ grants = [atZero |-> 0, atNow |-> 0]
    /\ midRefill = FALSE
    /\ lastCall = [op |-> "new", result |-> 0]

CNext == CEnqueue \/ CExecuteStep

SpecClient == CInit /\ [][CNext]_vars

Outcomes == [i \in DOMAIN clientLog |-> clientLog[i].outcome]

\* The request has left executeLLMRequest, which returned or threw `result`.
Left(result) == running = {} /\ Len(future) = 1 /\ future[1] = result

(***************************************************************************)
(* C25: when the first two outbound calls fail with a 5xx error, the       *)
(* executor sleeps 1000 ms after the first and 2000 ms after the second;   *)
(* if the third call succeeds the request resolves with the response,      *)
(* 3000 ms after it started; if the third call fails with 5xx as well, the *)
(* error is thrown and there is no fourth call.                            *)
(***************************************************************************)
C25_RetryOnServerError ==
    ( /\ Len(clientLog) >= 2
      /\ clientLog[1].outcome = "serverError"
      /\ clientLog[2].outcome = "serverError" )
        => /\ clientLog[1].waitTime = 1000
           /\ clientLog[2].waitTime = 2000
           /\ (Len(clientLog) >= 3 /\ clientLog[3].outcome \in {"response", "serverError"}) =>
                 /\ Len(clientLog) = 3
                 /\ now = 1000 + 2000
                 /\ Left(clientLog[3].outcome)

C25_Witness ==
    /\ Outcomes = <<"serverError", "serverError", "response">>
    /\ Left("response")
    /\ now = 3000

(***************************************************************************)
(* C26: after the n-th outbound call has failed with a TimeoutError, for   *)
(* n below 3, the executor sleeps n x 1000 ms before it retries; a         *)
(* TimeoutError of the third call is thrown to the caller.                 *)
(***************************************************************************)
C26_TimeoutBackoff ==
    \A n \in DOMAIN clientLog :
        clientLog[n].outcome = "timeoutError" =>
            IF n < maxRetries
            THEN clientLog[n].waitTime = n * 1000
            ELSE n = Len(clientLog) /\ Left("timeoutError")

(***************************************************************************)
(* C27: an outbound call that fails with an auth error is the last call of *)
(* the request, at whatever attempt it happens: no sleep and no call       *)
(* follow, and the future of the request is rejected with that error.      *)
(***************************************************************************)
C27_AuthErrorNotRetried ==
    \A n \in DOMAIN clientLog :
        clientLog[n].outcome = "authError" =>
            /\ n = Len(clientLog)
            /\ clientLog[n].waitTime = 0
            /\ Left("authError")

C27_Witness ==
    /\ Outcomes = <<"authError">>
    /\ Left("authError")
    /\ started = <<1>>

(***************************************************************************)
(* C28: after the k-th 429 of a request the executor sleeps 2, 4, 8, 16    *)
(* and 30 seconds for k = 1..5 and the request goes on; the sixth 429 ends *)
(* it: no call follows and its future is resolved, with the empty          *)
(* response.                                                               *)
(***************************************************************************)
RateLimitWaits == <<2000, 4000, 8000, 16000, 30000>>

RateLimitedUpTo(n) == Cardinality({i \in 1..n : clientLog[i].outcome = "rateLimited"})

C28_RateLimitBackoff ==
    \A n \in DOMAIN clientLog :
        clientLog[n].outcome = "rateLimited" =>
            LET k == RateLimitedUpTo(n)
            IN IF k <= Len(RateLimitWaits)
               THEN /\ clientLog[n].waitTime = RateLimitWaits[k]
                    /\ n = Len(clientLog) =>
                          \E x \in running :
                              \/ x.phase = "backoff" /\ x.waitTime = RateLimitWaits[k]
                              \/ x.phase = "request" /\ x.attempt = n + 1
               ELSE /\ n = Len(clientLog)
                    /\ Left("emptyResponse")
                    /\ "emptyResponse" \in Results

C28_Witness ==
    /\ Outcomes = [i \in 1..6 |-> "rateLimited"]
    /\ [i \in 1..5 |-> clientLog[i].waitTime] = RateLimitWaits
    /\ Left("emptyResponse")

(***************************************************************************)
(* C29: when the sixth 429 has ended the request, analyze() returns the    *)
(* findings of generateLocalFindings for the content, and no error.        *)
(***************************************************************************)
RetriesExhausted ==
    /\ clientLog # <<>>
    /\ clientLog[Len(clientLog)].outcome = "rateLimited"
    /\ running = {}

C29_ExhaustedFallsBackToLocal ==
    RetriesExhausted =>
        \A content \in Contents :
            analyzeResult(variant, future[1], content)
                = [findings |-> fallbackFindings(variant, content), error |-> ""]

(***************************************************************************)
(* C21: the close handler sends the client an empty diagnostic list for    *)
(* the document and drops its debounced analysis, and as long as the       *)
(* document is not open the last diagnostics sent for it stay empty, also  *)
(* when an analysis of it was in flight when it was closed.                *)
(***************************************************************************)
NoDiagnostics == [findings |-> <<>>, error |-> ""]

C21_CloseStep ==
    \A uri \in Uris :
        DidClose(uri) =>
            /\ uri \in sent'
            /\ diagnostics'[uri] = NoDiagnostics
            /\ uri \notin DOMAIN analysisQueue'

C21_ClosedShowsNothing ==
    \A uri \in DOMAIN diagnostics :
        uri \notin DOMAIN documents => diagnostics[uri] = NoDiagnostics

C21_CloseClearsDiagnostics == [][C21_CloseStep]_vars /\ []C21_ClosedShowsNothing

(***************************************************************************)
(* C22: in the step in which a triggerAnalysis call that set the analyzing *)
(* flag ends, be it after analyze() returned or on the missing API key,    *)
(* the flag of the document is cleared, setFindings has written the        *)
(* document's entry, and diagnostics have been sent for the document.      *)
(***************************************************************************)
Finished(uri) == \E a \in analyses \ analyses' : a.uri = uri

KeyMissing(uri) ==
    /\ uri \in sent'
    /\ diagnostics'[uri].error = "API key not configured"

C22_Step ==
    \A uri \in Uris :
        (Finished(uri) \/ KeyMissing(uri)) =>
            /\ uri \in sent'
            /\ uri \in stored'
            /\ uri \in DOMAIN documentStore'.documents
            /\ documentStore'.documents[uri].lastAnalyzed # <<>>
            /\ ~documentStore'.documents[uri].analyzing

C22_TerminalOutcome == [][C22_Step]_vars

(***************************************************************************)
(* C23: for a request rejected by a cancellation (superseded, 'Request     *)
(* cancelled', 'All requests cancelled') analyze() returns a result        *)
(* without an error message.                                               *)
(***************************************************************************)
CancellationRejections == {"superseded", "cancelled", "allCancelled"}

C23_CancellationIsSilent ==
    \A s \in DOMAIN future, content \in Contents :
        future[s] \in CancellationRejections =>
            analyzeResult(variant, future[s], content).error = ""

(***************************************************************************)
(* C24: for a request rejected as 'Request timed out in queue' analyze()   *)
(* returns a result without an error message.                              *)
(***************************************************************************)
C24_QueueTimeoutIsSilent ==
    \A s \in DOMAIN future, content \in Contents :
        future[s] = "timedOut" =>
            analyzeResult(variant, future[s], content).error = ""

(***************************************************************************)
(* C30, as stated: when the caller's signal aborts while the request is    *)
(* executing, the promise of the request does not settle in that step; it  *)
(* settles when execute() returns or throws.                               *)
(***************************************************************************)
Executing(s) == \E x \in running : x.seq = s

C30_OriginalStep ==
    \A s \in signal :
        (SignalAbort(s) /\ Executing(s)) => future'[s] = future[s]

C30_AbortSettlesOnCompletion == [][C30_OriginalStep]_vars

(***************************************************************************)
(* C30, amended: when the caller's signal aborts while the request is      *)
(* executing, the promise of the request is rejected with 'Request         *)
(* cancelled' in that step; execute() goes on, the queue stays busy with   *)
(* it and starts nothing else, and nothing changes the promise afterwards. *)
(***************************************************************************)
C30_AmendedStep ==
    /\ \A s \in signal :
           (SignalAbort(s) /\ Executing(s)) =>
               /\ future[s] = "pending"
               /\ future'[s] = "cancelled"
               /\ running' = running
               /\ queue' = queue
               /\ processing /\ processing'
    /\ \A s \in DOMAIN future : future[s] # "pending" => future'[s] = future[s]

C30_AbortRejectsAtOnce == [][C30_AmendedStep]_vars

\* A request is executing after its promise was rejected by the signal, and
\* another request waits behind it.
C30_Witness ==
    /\ \E x \in running : future[x.seq] = "cancelled"
    /\ processing
    /\ queue # <<>>

(***************************************************************************)
(* acquire() on a limiter of any rate the configuration accepts.           *)
(***************************************************************************)
AInit ==
    /\ QFresh
    /\ DFresh
    /\ SFresh
    /\ TFresh
    /\ CFresh
    /\ rateLimitEnabled = TRUE
    /\ \E requestsPerMinute \in AcceptedRates :
           limiter = RateLimiter(requestsPerMinute, 0)
    /\ sleepers = <<>>
    /\ grants = [atZero |-> 0, atNow |-> 0]
    /\ midRefill = FALSE
    /\ lastCall = [op |-> "new", result |-> 0]

SpecAcquire == AInit /\ [][LNext]_vars

(***************************************************************************)
(* C40: for every positive rate the configuration accepts, acquire()       *)
(* eventually returns, provided time advances: a suspended acquire() is    *)
(* woken at most 1000 ms after its last attempt, and the bucket it waits   *)
(* on can serve it, that is, once the wait it computed has passed with no  *)
(* other call taking tokens, a request can be made.                        *)
(***************************************************************************)
C40_AcquireReturns ==
    \A i \in DOMAIN sleepers :
        /\ sleepers[i] - now <= maxSleepMs
        /\ \/ canRequest(limiter, now)
           \/ \A w \in waitTimes(refillTokens(limiter, now)) :
                  canRequest(limiter, now + w)

(***************************************************************************)
(* C39: executeLLMRequest always terminates: whatever the outcomes of its  *)
(* outbound calls, it makes at most 8 of them, has returned or thrown once *)
(* the eighth is over, and while it waits in acquire() before the first    *)
(* call the limiter can serve it, that is, once the wait acquire()         *)
(* computed has passed a request can be made.                              *)
(***************************************************************************)
MaxOutboundCalls == (maxRetries - 1) + (maxRateLimitRetries + 1)

InAcquire == {x \in running : x.phase \in {"acquire", "limiterSleep"}}

C39_ExecuteTerminates ==
    /\ Len(clientLog) <= MaxOutboundCalls
    /\ Len(clientLog) = MaxOutboundCalls => running = {}
    /\ InAcquire # {} =>
           \/ canRequest(limiter, now)
           \/ \A w \in waitTimes(refillTokens(limiter, now)) :
                  canRequest(limiter, now + w)

(***************************************************************************)
(* C38: a 5xx or timeout failure is retried whenever fewer than 3 of the   *)
(* request's calls so far, this one included, ended in something other     *)
(* than a 429, however many 429 responses came before it.                  *)
(***************************************************************************)
NonRateLimitedUpTo(n) ==
    Cardinality({i \in 1..n : clientLog[i].outcome # "rateLimited"})

C38_IndependentRetryBudgets ==
    \A n \in DOMAIN clientLog :
        ( /\ clientLog[n].outcome \in {"serverError", "timeoutError"}
          /\ NonRateLimitedUpTo(n) < maxRetries )
            => (n < Len(clientLog) \/ running # {})

(***************************************************************************)
(* C36: with rate limiting enabled, every outbound call, retries included, *)
(* is preceded by the acquisition of its own token: the calls made so far  *)
(* are never more than the tokens acquired.                                *)
(***************************************************************************)
CallsStarted == Len(clientLog) + Cardinality({x \in running : x.phase = "request"})

TokensAcquired == grants.atNow

C36_TokenPerOutboundCall == rateLimitEnabled => CallsStarted <= TokensAcquired

(***************************************************************************)
(* C37: provided every executing action terminates, every future returned  *)
(* by enqueue settles in the end; and whenever the queue is empty and no   *)
(* action is executing, isProcessing is false and size is 0.               *)
(***************************************************************************)
size == Len(queue)

isProcessing == processing

C37_EveryFutureSettles ==
    /\ \A s \in 1..MaxEnqueues :
           (s \in DOMAIN future) ~> (s \in DOMAIN future /\ future[s] # "pending")
    /\ []((queue = <<>> /\ running = {}) => (~isProcessing /\ size = 0))

\* Three futures have settled, one of them for a request that waited in the
\* queue behind an executing one, and the queue is idle again.
C37_Witness ==
    /\ Len(future) = MaxEnqueues
    /\ \A s \in DOMAIN future : future[s] # "pending"
    /\ Len(started) >= 2
    /\ queue = <<>>
    /\ running = {}
    /\ ~isProcessing

(***************************************************************************)
(* One debounceAsync-wrapped function: calls, timers firing, executions of *)
(* the wrapped function returning or throwing, and the clock.              *)
(***************************************************************************)
DAStep(d) ==
    /\ adeb' = d
    /\ UNCHANGED <<qvars, svars, lvars, tvars, cvars, deb, events>>

DACall(a) ==
    /\ Len(adeb.promise) < MaxAsyncCalls
    /\ DAStep(debouncedAsync(adeb, a, now))

DATimer(tm) ==
    /\ tm.due = now
    /\ DAStep(asyncTimerCallback(adeb, tm))

DASettle(r, ok) == DAStep(asyncRunSettles(adeb, r, ok))

DATick(d) ==
    /\ ticks < MaxDebounceTicks
    /\ \A tm \in adeb.timers : now + d <= tm.due
    /\ now' = now + d
    /\ ticks' = ticks + 1
    /\ UNCHANGED <<queue, processing, running, future, aborted, signal, signals,
                   rateLimitEnabled, failedCalls, started, superseder, completed,
                   dvars, svars, lvars, tvars, cvars>>

DANext ==
    \/ \E a \in Args : DACall(a)
    \/ \E tm \in adeb.timers : DATimer(tm)
    \/ \E r \in adeb.runs, ok \in BOOLEAN : DASettle(r, ok)
    \/ \E d \in DebounceTickMs : DATick(d)

SpecDebounceAsync == DInit /\ [][DANext]_vars

(***************************************************************************)
(* C32: every promise a debounceAsync-wrapped function returned settles in *)
(* the end, with the outcome of an execution of the wrapped function: once *)
(* no timer is armed and no execution is running, no promise is pending,   *)
(* and a settled promise holds the outcome of an execution its own call or *)
(* a later one started.                                                    *)
(***************************************************************************)
C32_EveryPromiseSettles ==
    /\ (adeb.timers = {} /\ adeb.runs = {}) =>
           \A p \in DOMAIN adeb.promise : adeb.promise[p] # Unsettled
    /\ \A p \in DOMAIN adeb.promise :
           adeb.promise[p] # Unsettled => adeb.promise[p].run >= p

(***************************************************************************)
(* One run of runCLI on any inputs: up to MaxFiles files, each with one of *)
(* the results analyze() can give.                                         *)
(***************************************************************************)
FileResults ==
    [throws : {FALSE},
     findings : {<<>>} \cup {<<s>> : s \in FindingSeverity}
                \cup {<<"info", "warning">>, <<"hint", "error">>}]
    \cup {[throws |-> TRUE, findings |-> <<>>]}

FileLists == UNION {[1..n -> FileResults] : n \in 0..MaxFiles}

CliInputs ==
    [init : BOOLEAN, initSuccess : BOOLEAN, apiKeyValid : BOOLEAN, parserOk : BOOLEAN,
     files : FileLists]

CliStep(c) ==
    /\ cli' = c
    /\ UNCHANGED <<qvars, dvars, svars, lvars, tvars, clientLog>>

RunCLIStart ==
    /\ cli.pc = "start"
    /\ CliStep(runCLIStart(cli))

RunCLIAnalyzeFile ==
    /\ cli.pc = "analyze"
    /\ Len(cli.results) < Len(cli.input.files)
    /\ CliStep(runCLIAnalyzeFile(cli))

RunCLIExit ==
    /\ cli.pc = "analyze"
    /\ Len(cli.results) = Len(cli.input.files)
    /\ CliStep(Return(cli, exitCode(cli.results)))

CliInit ==
    /\ QFresh
    /\ DFresh
    /\ SFresh
    /\ LFresh
    /\ TFresh
    /\ clientLog = <<>>
    /\ rateLimitEnabled = TRUE
    /\ \E input \in CliInputs : cli = CliRun(input)

CliNext == RunCLIStart \/ RunCLIAnalyzeFile \/ RunCLIExit

SpecCLI == CliInit /\ [][CliNext]_vars

(***************************************************************************)
(* C33: a run of runCLI that analyses files returns 2 when the API key is  *)
(* missing, the parser fails to initialise or no file is found; otherwise  *)
(* it returns 1 when any finding, of any severity, was reported and 0 when *)
(* none was.                                                               *)
(***************************************************************************)
AnyFinding == \E i \in DOMAIN cli.results : cli.results[i].findings # <<>>

ConfigurationOrRuntimeError ==
    ~cli.input.apiKeyValid \/ ~cli.input.parserOk \/ cli.input.files = <<>>

C33_ExitCodes ==
    (cli.pc = "done" /\ ~cli.input.init) =>
        cli.exit = IF ConfigurationOrRuntimeError THEN 2
                   ELSE IF AnyFinding THEN 1 ELSE 0

(***************************************************************************)
(* C34: every findings list the store holds, in a document's entry and in  *)
(* the cache under (identity, content fingerprint, configuration           *)
(* fingerprint), was produced by analysing content with exactly that       *)
(* fingerprint.                                                            *)
(***************************************************************************)
\* What analyze() can return for content: the findings of the response, the
\* local findings, or none.
ProducedFrom(content) == {<<"llm:" \o content>>, <<"local:" \o content>>, <<>>}

ProducedFor(contentHash) ==
    UNION {ProducedFrom(text) : text \in {t \in Contents : computeHash(t) = contentHash}}

C34_FindingsProvenance ==
    \A uri \in Uris :
        /\ uri \in DOMAIN documentStore.documents =>
               documentStore.documents[uri].findings
                   \in ProducedFor(documentStore.documents[uri].contentHash)
        /\ \A text \in Contents :
               CacheOf(documentStore, uri)[text] # <<>> =>
                   CacheOf(documentStore, uri)[text][1].findings \in ProducedFrom(text)

(***************************************************************************)
(* The server with a clock that can also advance past maxQueueAge, so that *)
(* a queued request can time out in the queue.                             *)
(***************************************************************************)
SNextLong == SNext \/ STick(maxQueueAge + 1)

SpecServerLong == SInit /\ [][SNextLong]_vars

(***************************************************************************)
(* C31: for distinct documents A and B, a step in which an analysis of A   *)
(* ends, whatever its outcome, and no analysis of B ends writes no         *)
(* findings for B, leaves B's cached results and the diagnostics published *)
(* for B as they were and sends nothing for B; and when no analysis of B   *)
(* starts in it either, B's entry with its in-flight flag is unchanged.    *)
(***************************************************************************)
EntryOf(s, uri) == IF uri \in DOMAIN s.documents THEN <<s.documents[uri]>> ELSE <<>>

DiagnosticsOf(d, uri) == IF uri \in DOMAIN d THEN <<d[uri]>> ELSE <<>>

InFlightAfter(uri) == {a \in analyses' : a.uri = uri}

C31_Step ==
    \A A, B \in Uris :
        ( /\ A # B
          /\ InFlightAfter(A) # InFlight(A)
          /\ InFlightAfter(A) \subseteq InFlight(A)
          /\ InFlight(B) \subseteq InFlightAfter(B) )
        => /\ CacheOf(documentStore', B) = CacheOf(documentStore, B)
           /\ DiagnosticsOf(diagnostics', B) = DiagnosticsOf(diagnostics, B)
           /\ B \notin sent'
           /\ B \notin stored'
           /\ InFlightAfter(B) = InFlight(B) =>
                  EntryOf(documentStore', B) = EntryOf(documentStore, B)

Settled(uri) ==
    /\ uri \in DOMAIN documents
    /\ uri \in DOMAIN documentStore.documents
    /\ uri \in DOMAIN analysisQueue => analysisQueue[uri].timers = {}
    /\ InFlight(uri) = {}

C35_EventuallyConsistent ==
    \A uri \in Uris :
        (apiKeyValid /\ Settled(uri)) =>
            /\ ~documentStore.documents[uri].analyzing
            /\ documentStore.documents[uri].findings \in ProducedFrom(documents[uri])
            /\ uri \in DOMAIN diagnostics
            /\ diagnostics[uri].findings \in ProducedFrom(documents[uri])

====
